---- MODULE Spec2Model ----
(***************************************************************************)
(* Model of the data aggregation and confidence-scoring core of            *)
(* playoracle-backend:                                                     *)
(*   - SportsIntelAggregator (app/services/sports_intel.py): fetch with    *)
(*     cache, provider call, mock generator, cache table;                  *)
(*   - TheSportsDBClient (app/services/providers/thesportsdb_client.py):   *)
(*     the retry loop of _request and the envelope unwrapping;             *)
(*   - the rate limiter of SportsDataIOClient / SportradarClient;          *)
(*   - the DCI scoring services.                                           *)
(* Time of the aggregator is counted in hours, time of the rate limiter in *)
(* tenths of a second, backoff waits in 1/JitterRes seconds.  Scores are   *)
(* fixed-point numbers.                                                    *)
(***************************************************************************)
EXTENDS Integers, Sequences, FiniteSets, TLC

\* ---------------------------------------------------------------- bounds
\* number of aggregator calls (fetch_schedule / fetch_upcoming_boxing) of a run
MaxCalls == 2
\* the aggregator's clock stops here (hours)
MaxTime == 24
\* the aggregator's clock advances in steps of this many hours
TickHours == 12
\* number of _request calls made on the one client of SpecRequest
MaxRequests == 2
\* number of requests the coroutines of SpecRateLimit send
MaxSends == 3
\* the rate limiter's clock stops here (tenths of a second)
RLMaxTime == 30
\* the rate limiter's clock advances in steps of this many tenths of a second
RLTick == 5
\* number of fetch_schedule calls that run at the same time in SpecGate
MaxGateCalls == 6
\* resolution of the backoff jitter: jitter is k/JitterRes seconds, k < JitterRes
JitterRes == 2

\* ------------------------------------------------------- program constants
\* TheSportsDBClient.__init__: max_retries default
max_retries == 3
\* TheSportsDBClient.__init__: asyncio.Semaphore(5)
SemaphorePermits == 5
\* fetch_schedule: ttl_hours of the schedule entry
ScheduleTTL == 12
\* fetch_upcoming_boxing: ttl_hours of the boxing entry
BoxingTTL == 24
\* SportsDataIOClient.__init__: _rate_limit_delay = 1.0 s, in tenths of a second
rate_limit_delay == 10

\* ---------------------------------------------------------- python values
\* Optional[list]: None, or a list
None == [some |-> FALSE, val |-> <<>>]
Some(v) == [some |-> TRUE, val |-> v]
\* truth value of an Optional[list] in `if cached:` (None and [] are falsy)
Truthy(o) == o.some /\ Len(o.val) > 0

\* str.lower() on the sport identifiers the callers pass
Lower(s) == IF s = "NBA" THEN "nba" ELSE s

\* LEAGUE_IDS of thesportsdb_client.py; "" stands for the None of boxing
LEAGUE_IDS ==
    [s \in {"nfl", "nba", "mlb", "nhl", "premier_league", "formula1",
            "ncaa_football", "boxing"} |->
        CASE s = "nfl" -> "4391"
          [] s = "nba" -> "4387"
          [] s = "mlb" -> "4424"
          [] s = "nhl" -> "4380"
          [] s = "premier_league" -> "4328"
          [] s = "formula1" -> "4370"
          [] s = "ncaa_football" -> "4391"
          [] OTHER -> ""]

\* LEAGUE_IDS.get(sport.lower()); "" when the key is missing or maps to None
LeagueIdOf(sport) ==
    IF Lower(sport) \in DOMAIN LEAGUE_IDS THEN LEAGUE_IDS[Lower(sport)] ELSE ""

\* sport identifiers the callers of the model pass to fetch_schedule
CallSports == {"NBA", "curling"}

\* ------------------------------------------------------------- cache keys
ScheduleKey(sport) == <<"schedule", sport>>
BoxingKey == <<"boxing", "upcoming">>

\* ------------------------------------------------------ provider responses
\* a date string of the provider: a parsable date (hours), an unparsable
\* string, a missing field, or a value that is no string
DateOf(h) == [t |-> "date", v |-> h]
BadDate == [t |-> "bad", v |-> 0]
NoDate == [t |-> "absent", v |-> 0]
NonStrDate == [t |-> "nonstr", v |-> 0]

\* elements of a provider list: an event object or something else
EvDict(id, d) == [t |-> "dict", idEvent |-> id, dateEvent |-> d]
EvScalar == [t |-> "scalar", idEvent |-> "", dateEvent |-> NoDate]

\* the value under an envelope key: missing, null, a list, or another value
Absent == [t |-> "absent", items |-> <<>>]
Null == [t |-> "null", items |-> <<>>]
ListOf(items) == [t |-> "list", items |-> items]
Scalar == [t |-> "scalar", items |-> <<>>]

\* a JSON body: a dict with the keys "events" and "event", a bare list
JDict(events, event) == [shape |-> "dict", events |-> events, event |-> event]
JList == [shape |-> "list", events |-> Absent, event |-> Absent]

E1 == EvDict("e1", DateOf(1000))
E2 == EvDict("e2", DateOf(9))
E3 == EvDict("e3", BadDate)
E4 == EvDict("e4", NoDate)
E5 == EvDict("e5", NonStrDate)

Bodies ==
    { JDict(ListOf(<<E1, E2>>), ListOf(<<E1, E2>>)),
      JDict(ListOf(<<E1, E2>>), ListOf(<<E3, E1, E4>>)),
      JDict(ListOf(<<>>), ListOf(<<>>)),
      JDict(Null, Null),
      JDict(Absent, Absent),
      JDict(Scalar, Scalar),
      JDict(ListOf(<<E1, EvScalar>>), ListOf(<<E1, EvScalar>>)),
      JDict(ListOf(<<E1, E5>>), ListOf(<<E1, E5>>)),
      JList }

NoBody == JDict(Absent, Absent)

\* what one `await self._client.get(...)` produces
Resp(kind, code, body) == [kind |-> kind, code |-> code, body |-> body]
Responses ==
    { Resp("status", 200, b) : b \in Bodies }
    \cup { Resp("status", c, NoBody) : c \in {401, 429, 500} }
    \cup { Resp("badjson", 200, NoBody),
           Resp("timeout", 0, NoBody),
           Resp("error", 0, NoBody) }

\* tag of a response for the record of what a call has seen
RespTag(r) ==
    IF r.kind = "status" THEN
        (CASE r.code = 200 -> "200" [] r.code = 401 -> "401"
           [] r.code = 429 -> "429" [] OTHER -> "5xx")
    ELSE r.kind

\* ------------------------------------------- TheSportsDBClient: unwrapping
EmptyList == ListOf(<<>>)

\* get_upcoming_events_by_league on the body _request returned:
\* data.get("events", []) or [], and [] when that raises (data is no dict)
UpcomingEventsByLeague(body) ==
    IF body.shape # "dict" THEN EmptyList
    ELSE LET v == body.events IN
         IF v.t \in {"absent", "null"} THEN EmptyList
         ELSE IF v.t = "list" /\ v.items = <<>> THEN EmptyList
         ELSE v

\* does get_upcoming_events_by_league catch an exception on this body
UnwrapRaises(body) == body.shape # "dict"

\* the events of the list whose date parses and lies after `t`, in order
RECURSIVE FilterUpcoming(_, _)
FilterUpcoming(items, t) ==
    IF items = <<>> THEN <<>>
    ELSE LET e == Head(items)
             rest == FilterUpcoming(Tail(items), t)
         IN IF e.dateEvent.t = "date" /\ e.dateEvent.v > t
            THEN <<e>> \o rest ELSE rest

\* does the body of get_upcoming_boxing_events raise inside its try block:
\* data is no dict, "event" is no list, an element is no dict (.get fails),
\* or a dateEvent is no string (strptime raises TypeError, not ValueError)
BoxingUnwrapRaises(body) ==
    \/ body.shape # "dict"
    \/ body.event.t = "scalar"
    \/ /\ body.event.t = "list"
       /\ \E i \in 1..Len(body.event.items) :
            \/ body.event.items[i].t # "dict"
            \/ body.event.items[i].dateEvent.t = "nonstr"

\* get_upcoming_boxing_events on the body _request returned, at time t
UpcomingBoxingEvents(body, t) ==
    IF BoxingUnwrapRaises(body) THEN EmptyList
    ELSE IF body.event.t \in {"absent", "null"} THEN EmptyList
    ELSE ListOf(FilterUpcoming(body.event.items, t))

\* ------------------------------------------------- aggregator: pure parts
\* the aggregator's event record (the fields the claims speak about)
Event(id, sport, start, source, mock) ==
    [id |-> id, sport_type |-> sport, start_time |-> start,
     sources_used |-> source, mock_data |-> mock]

\* _merge_event_data
MergeEventData(ev, sport) ==
    Event(<<"api", ev.idEvent>>, sport, ev.dateEvent, "thesportsdb", FALSE)

\* _merge_boxing_event
MergeBoxingEvent(ev) ==
    Event(<<"api", ev.idEvent>>, "boxing", ev.dateEvent, "thesportsdb", FALSE)

\* the merge loop of _fetch_schedule_from_providers raises when the client's
\* value cannot be iterated or an element has no .get
MergeRaises(raw) ==
    \/ raw.t = "scalar"
    \/ \E i \in 1..Len(raw.items) : raw.items[i].t # "dict"

\* the merge loop of _fetch_schedule_from_providers
MergedSchedule(raw, sport) ==
    [i \in 1..Len(raw.items) |-> MergeEventData(raw.items[i], sport)]

\* the merge loop of _fetch_boxing_from_providers
MergedBoxing(raw) ==
    [i \in 1..Len(raw.items) |-> MergeBoxingEvent(raw.items[i])]

\* _get_mock_schedule at time t (hours): two events, one and two days ahead
MockSchedule(sport, t) ==
    << Event(<<"mock", sport, "1">>, sport, DateOf(t + 24), "mock", TRUE),
       Event(<<"mock", sport, "2">>, sport, DateOf(t + 48), "mock", TRUE) >>

\* _get_mock_boxing_events at time t: 30 and 45 days ahead
MockBoxingEvents(t) ==
    << Event(<<"mock", "boxing", "1">>, "boxing", DateOf(t + 720), "mock", TRUE),
       Event(<<"mock", "boxing", "2">>, "boxing", DateOf(t + 1080), "mock", TRUE) >>

\* ------------------------------------------------------------ cache table
\* a row of the sports cache table; created_at of a new row is its default
SportsCache(key, data, expires, created) ==
    [cache_key |-> key, payload |-> data, expires_at |-> expires,
     created_at |-> created]

\* indices of the rows with this key
RowsFor(rows, key) == {i \in 1..Len(rows) : rows[i].cache_key = key}

\* query(...).filter(cache_key == key).first(): index of the first row, or 0
FirstRow(rows, key) ==
    IF RowsFor(rows, key) = {} THEN 0
    ELSE CHOOSE i \in RowsFor(rows, key) : \A j \in RowsFor(rows, key) : i <= j

\* _get_from_cache with the comparison expires_at >= now
GetFromCacheAtExpiry(rows, key, t) ==
    LET i == FirstRow(rows, key) IN
    IF i # 0 /\ rows[i].expires_at >= t THEN Some(rows[i].payload) ELSE None

\* _get_from_cache at time t
GetFromCache(rows, key, t) ==
    LET i == FirstRow(rows, key) IN
    IF i # 0 /\ rows[i].expires_at > t THEN Some(rows[i].payload) ELSE None

\* _save_to_cache with the lookup not filtered by cache_key: the first row
\* of the table is the one that is overwritten
SaveToCacheFirstRow(rows, key, data, ttl_hours, t) ==
    IF Len(rows) > 0
    THEN [rows EXCEPT ![1] = [@ EXCEPT !.payload = data,
                                       !.expires_at = t + ttl_hours,
                                       !.created_at = t]]
    ELSE Append(rows, SportsCache(key, data, t + ttl_hours, t))

\* _save_to_cache without the lookup of the existing row: always inserts
SaveToCacheAppend(rows, key, data, ttl_hours, t) ==
    Append(rows, SportsCache(key, data, t + ttl_hours, t))

\* _save_to_cache at time t: the table after the commit
SaveToCache(rows, key, data, ttl_hours, t) ==
    LET i == FirstRow(rows, key) IN
    IF i # 0
    THEN [rows EXCEPT ![i] = [@ EXCEPT !.payload = data,
                                       !.expires_at = t + ttl_hours,
                                       !.created_at = t]]
    ELSE Append(rows, SportsCache(key, data, t + ttl_hours, t))

\* ------------------------------------------------------------------ state
VARIABLES
    api_key,    \* settings.thesportsdb_api_key
    now,        \* datetime.utcnow(), in hours
    db,         \* the sports cache table: a sequence of rows
    call,       \* the aggregator call in progress (pc "idle": none)
    done,       \* the finished calls, newest first (the last two are kept)
    started,    \* number of calls started
    last_save,  \* per cache key, the arguments of the latest _save_to_cache
    req,        \* SpecRequest: the _request call in progress, or the last one
    nreq,       \* SpecRequest: number of _request calls made
    rl_now,             \* SpecRateLimit: datetime.now(), in tenths of a second
    last_request_time,  \* SpecRateLimit: self._last_request_time
    co,                 \* SpecRateLimit: the coroutines inside _make_request
    sent,               \* SpecRateLimit: the times requests were sent at
    dci_in,     \* SpecDCI: the latest compute_dci call, sport and bundles
    dci_out,    \* SpecDCI: what it returned
    cc,         \* SpecConcurrent: the concurrent fetch_schedule calls
    sync,       \* SpecSync: the sync_sports_data call
    gate,       \* SpecGate: the fetch_schedule calls, each with its client
    sem,        \* SpecGate: per client, the free permits of its _semaphore
    preds,       \* SpecPredict: the last two predict_game calls, newest first
    resync,       \* SpecResync: the sync runs before the present one
    live       \* SpecLive: the last two LiveDataService calls, newest first

aggVars == <<api_key, now, db, call, done, started, last_save>>
reqVars == <<req, nreq>>
rlVars == <<rl_now, last_request_time, co, sent>>
dciVars == <<dci_in, dci_out>>
concVars == <<cc>>
\* the variables of the specifications added to the first four
syncVars == <<sync>>
gateVars == <<gate, sem>>
predVars == <<preds>>
resyncVars == <<resync>>
liveVars == <<live>>
xVars == <<concVars, syncVars, gateVars, predVars, resyncVars, liveVars>>
vars == <<aggVars, reqVars, rlVars, dciVars, xVars>>

\* sync_sports_data: the list `sports`
SyncSports == <<"nfl", "nba", "mlb", "nhl", "premier_league", "formula1">>

Keys ==
    {ScheduleKey(s) : s \in CallSports \cup {SyncSports[i] : i \in DOMAIN SyncSports}}
    \cup {BoxingKey}

\* SportsIntelAggregator.__init__: use_mock
UseMock == api_key = "3" \/ api_key = ""

NoSave == [saved |-> FALSE, payload |-> <<>>, at |-> 0, ttl |-> 0]

\* no call in progress
IdleCall ==
    [pc |-> "idle", op |-> "none", sport |-> "", use_cache |-> FALSE,
     key |-> <<"", "">>,
     had_row |-> FALSE,    \* a row for the key existed when the call started
     fresh |-> FALSE,      \* ... and had not expired
     cached |-> None,      \* what _get_from_cache returned (None if not called)
     attempt |-> 0,        \* loop variable of _request (while in flight)
     retried |-> FALSE,    \* _request made more than one attempt
     nclient |-> 0,        \* calls of the provider client made
     final |-> "none",     \* the response that ended _request, or "exhausted"
     outcome |-> "none",   \* cache, mock, noleague, ok, failed, raised
     result |-> <<>>]      \* the returned list

\* the finished calls after `rec` has finished
Remember(rec) ==
    LET fin == [rec EXCEPT !.pc = "idle", !.attempt = 0,
                           !.retried = rec.attempt > 0]
    IN IF done = <<>> THEN <<fin>> ELSE <<fin, done[1]>>

\* one ttl for every query kind
TTLOfSame(op) == BoxingTTL

\* the ttl_hours fetch_schedule and fetch_upcoming_boxing pass to _save_to_cache
TTLOf(op) == IF op = "boxing" THEN BoxingTTL ELSE ScheduleTTL

AggInit ==
    /\ api_key \in {"", "3", "k"}
    /\ now = 0
    /\ db = <<>>
    /\ call = IdleCall
    /\ done = <<>>
    /\ started = 0
    /\ last_save = [k \in Keys |-> NoSave]

\* the call record when a call enters its function
Entered(op, sport, use_cache, key) ==
    [IdleCall EXCEPT !.op = op, !.sport = sport, !.use_cache = use_cache,
                     !.key = key,
                     !.cached = IF use_cache THEN GetFromCache(db, key, now)
                                ELSE None,
                     !.had_row = RowsFor(db, key) # {},
                     !.fresh = \E i \in RowsFor(db, key) : db[i].expires_at > now]

\* the call returns the cached payload without touching the table
ReturnCached(rec, cached) ==
    /\ done' = Remember([rec EXCEPT !.outcome = "cache", !.result = cached])
    /\ call' = IdleCall
    /\ UNCHANGED <<api_key, now, db, last_save>>

\* the call saves `events` under its key and returns them
SaveAndReturn(rec, events, outcome) ==
    /\ db' = SaveToCache(db, rec.key, events, TTLOf(rec.op), now)
    /\ last_save' = [last_save EXCEPT ![rec.key] =
                        [saved |-> TRUE, payload |-> events, at |-> now,
                         ttl |-> TTLOf(rec.op)]]
    /\ done' = Remember([rec EXCEPT !.outcome = outcome, !.result = events])
    /\ call' = IdleCall
    /\ UNCHANGED <<api_key, now>>

\* the exception leaves the aggregator's function: nothing is saved
Raise(rec) ==
    /\ done' = Remember([rec EXCEPT !.outcome = "raised"])
    /\ call' = IdleCall
    /\ UNCHANGED <<api_key, now, db, last_save>>

\* the call suspends at the first `await self._client.get` of _request
EnterRequest(rec) ==
    /\ call' = [rec EXCEPT !.pc = "http", !.attempt = 0, !.nclient = 1]
    /\ UNCHANGED <<api_key, now, db, done, last_save>>

\* the provider client has returned `raw` to the aggregator (`failed`: the
\* client caught an exception and returned [])
ClientReturned(rec, raw, failed) ==
    LET outcome == IF failed THEN "failed" ELSE "ok" IN
    IF rec.op = "boxing"
    THEN SaveAndReturn(rec, MergedBoxing(raw), outcome)
    ELSE IF MergeRaises(raw) THEN Raise(rec)
    ELSE SaveAndReturn(rec, MergedSchedule(raw, rec.sport), outcome)

\* fetch_schedule(sport, use_cache) up to its return or its first await
FetchSchedule(sport, use_cache) ==
    /\ call.pc = "idle"
    /\ UNCHANGED <<reqVars, rlVars, dciVars, xVars>>
    /\ started < MaxCalls
    /\ started' = started + 1
    /\ LET rec == Entered("schedule", sport, use_cache, ScheduleKey(sport))
       IN IF use_cache /\ Truthy(rec.cached)
          THEN ReturnCached(rec, rec.cached.val)
          ELSE IF UseMock
          THEN SaveAndReturn(rec, MockSchedule(sport, now), "mock")
          ELSE IF LeagueIdOf(sport) = ""
          THEN SaveAndReturn(rec, <<>>, "noleague")
          ELSE EnterRequest(rec)

\* fetch_upcoming_boxing(use_cache) up to its return or its first await
FetchUpcomingBoxing(use_cache) ==
    /\ call.pc = "idle"
    /\ UNCHANGED <<reqVars, rlVars, dciVars, xVars>>
    /\ started < MaxCalls
    /\ started' = started + 1
    /\ LET rec == Entered("boxing", "boxing", use_cache, BoxingKey)
       IN IF use_cache /\ Truthy(rec.cached)
          THEN ReturnCached(rec, rec.cached.val)
          ELSE IF UseMock
          THEN SaveAndReturn(rec, MockBoxingEvents(now), "mock")
          ELSE EnterRequest(rec)

\* _request: the wait before the next attempt, (2 ** attempt) + jitter,
\* in 1/JitterRes seconds
WaitTime(attempt, jitter) == (2 ^ attempt) * JitterRes + jitter

\* every error status sent into the backoff sleep, not 429 alone
RetriesAnyStatus(r, attempt) ==
    \/ r.kind = "status" /\ r.code # 200
    \/ r.kind = "timeout" /\ attempt < max_retries - 1

\* _request: does this response send the loop into a backoff sleep
Retries(r, attempt) ==
    \/ r.kind = "status" /\ r.code = 429
    \/ r.kind = "timeout" /\ attempt < max_retries - 1

\* the loop running two rounds too many
LoopContinuesTwoMore(attempt) == attempt < max_retries + 2

\* _request: `for attempt in range(self.max_retries)` has another round
LoopContinues(attempt) == attempt < max_retries

\* _request: one `await self._client.get` completes with response r
HttpResponse(r) ==
    /\ call.pc = "http"
    /\ UNCHANGED <<reqVars, rlVars, dciVars, xVars>>
    /\ UNCHANGED started
    /\ LET rec == [call EXCEPT !.final = RespTag(r)] IN
       IF Retries(r, call.attempt)
       THEN /\ call' = [call EXCEPT !.pc = "sleep"]
            /\ UNCHANGED <<api_key, now, db, done, last_save>>
       ELSE IF r.kind = "status" /\ r.code = 200
       THEN IF rec.op = "boxing"
            THEN ClientReturned(rec, UpcomingBoxingEvents(r.body, now),
                                BoxingUnwrapRaises(r.body))
            ELSE ClientReturned(rec, UpcomingEventsByLeague(r.body),
                                UnwrapRaises(r.body))
       ELSE ClientReturned(rec, EmptyList, TRUE)

\* _request: asyncio.sleep returns and the loop continues
BackoffOver ==
    /\ call.pc = "sleep"
    /\ UNCHANGED <<reqVars, rlVars, dciVars, xVars>>
    /\ UNCHANGED started
    /\ IF LoopContinues(call.attempt + 1)
       THEN /\ call' = [call EXCEPT !.pc = "http", !.attempt = @ + 1]
            /\ UNCHANGED <<api_key, now, db, done, last_save>>
       ELSE ClientReturned([call EXCEPT !.attempt = @ + 1, !.final = "exhausted"],
                           EmptyList, TRUE)

\* the clock advances
Tick ==
    /\ now + TickHours <= MaxTime
    /\ UNCHANGED <<reqVars, rlVars, dciVars, xVars>>
    /\ now' = now + TickHours
    /\ UNCHANGED <<api_key, db, call, done, started, last_save>>

\* ---------------------------- concurrent fetch_schedule calls, one sport
\* The calls run on one event loop: a call runs without interruption up to
\* its next await (the HTTP call or the backoff sleep of _request), so the
\* cache read and the whole of _save_to_cache are single steps.
\* the calls in progress at the same time
ConcCalls == {1, 2}
ConcSport == "NBA"

ConcInit == cc = [c \in ConcCalls |-> IdleCall]

\* the call record when call c enters fetch_schedule
ConcEntered(use_cache) ==
    [Entered("schedule", ConcSport, use_cache, ScheduleKey(ConcSport))
        EXCEPT !.pc = "running"]

\* call c saves `events` under its key and returns them
ConcSaveAndReturn(c, rec, events, outcome) ==
    /\ db' = SaveToCache(db, rec.key, events, TTLOf(rec.op), now)
    /\ cc' = [cc EXCEPT ![c] = [rec EXCEPT !.pc = "returned",
                                           !.outcome = outcome,
                                           !.result = events]]

\* the provider client has returned `raw` to call c
ConcClientReturned(c, rec, raw, failed) ==
    IF MergeRaises(raw)
    THEN /\ cc' = [cc EXCEPT ![c] = [rec EXCEPT !.pc = "raised",
                                                !.outcome = "raised"]]
         /\ UNCHANGED db
    ELSE ConcSaveAndReturn(c, rec, MergedSchedule(raw, rec.sport),
                           IF failed THEN "failed" ELSE "ok")

\* fetch_schedule(sport, use_cache) of call c up to its return or first await
ConcFetchSchedule(c, use_cache) ==
    /\ cc[c].pc = "idle"
    /\ UNCHANGED <<api_key, now, call, done, started, last_save>>
    /\ UNCHANGED <<reqVars, rlVars, dciVars, syncVars, gateVars, predVars, resyncVars, liveVars>>
    /\ LET rec == ConcEntered(use_cache)
       IN IF use_cache /\ Truthy(rec.cached)
          THEN /\ cc' = [cc EXCEPT ![c] = [rec EXCEPT !.pc = "returned",
                                                      !.outcome = "cache",
                                                      !.result = rec.cached.val]]
               /\ UNCHANGED db
          ELSE IF UseMock
          THEN ConcSaveAndReturn(c, rec, MockSchedule(ConcSport, now), "mock")
          ELSE IF LeagueIdOf(ConcSport) = ""
          THEN ConcSaveAndReturn(c, rec, <<>>, "noleague")
          ELSE /\ cc' = [cc EXCEPT ![c] = [rec EXCEPT !.pc = "http",
                                                      !.nclient = 1]]
               /\ UNCHANGED db

\* _request of call c: one `await self._client.get` completes with r
ConcHttpResponse(c, r) ==
    /\ cc[c].pc = "http"
    /\ UNCHANGED <<api_key, now, call, done, started, last_save>>
    /\ UNCHANGED <<reqVars, rlVars, dciVars, syncVars, gateVars, predVars, resyncVars, liveVars>>
    /\ LET rec == [cc[c] EXCEPT !.final = RespTag(r)] IN
       IF Retries(r, rec.attempt)
       THEN /\ cc' = [cc EXCEPT ![c] = [rec EXCEPT !.pc = "sleep"]]
            /\ UNCHANGED db
       ELSE IF r.kind = "status" /\ r.code = 200
       THEN ConcClientReturned(c, rec, UpcomingEventsByLeague(r.body),
                               UnwrapRaises(r.body))
       ELSE ConcClientReturned(c, rec, EmptyList, TRUE)

\* _request of call c: asyncio.sleep returns and the loop continues
ConcBackoffOver(c) ==
    /\ cc[c].pc = "sleep"
    /\ UNCHANGED <<api_key, now, call, done, started, last_save>>
    /\ UNCHANGED <<reqVars, rlVars, dciVars, syncVars, gateVars, predVars, resyncVars, liveVars>>
    /\ IF LoopContinues(cc[c].attempt + 1)
       THEN /\ cc' = [cc EXCEPT ![c] = [@ EXCEPT !.pc = "http",
                                                 !.attempt = @ + 1]]
            /\ UNCHANGED db
       ELSE ConcClientReturned(c, [cc[c] EXCEPT !.attempt = @ + 1,
                                                !.final = "exhausted"],
                               EmptyList, TRUE)

\* ----------------------------------------------------- sync_sports_data
\* sync_sports_data runs its fetches one after the other on the aggregator
\* (the calls of `call`); between two awaits it runs without interruption.
NoReport == [status |-> "none", count |-> 0]

IdleSync ==
    [pc |-> "idle",
     i |-> 0,            \* the fetch in progress: 1..6 a sport, 7 boxing
     attempted |-> <<>>, \* the fetches started: <<function, sport, use_cache>>
     sports |-> [s \in {} |-> NoReport],   \* results["sports"]
     boxing |-> NoReport]                  \* results["boxing"]

SyncInit == sync = IdleSync

\* the entry sync_sports_data writes for a fetch that ended as `d`
SyncEntry(d) ==
    IF d.outcome = "raised" THEN [status |-> "error", count |-> 0]
    ELSE [status |-> "success", count |-> Len(d.result)]

\* the loop ending at the first fetch that raises
NextFetchStopOnError(i, d) ==
    IF d.outcome = "raised" \/ i > Len(SyncSports) THEN 0 ELSE i + 1

\* the fetch that follows fetch i, which ended as `d`: the next sport, then
\* boxing, then none (0); the except clauses let the loop go on
NextFetch(i, d) == IF i <= Len(SyncSports) THEN i + 1 ELSE 0

\* sync_sports_data calls fetch number i with use_cache=False; the fetch runs
\* up to its return or its first await
SyncLaunch(i) ==
    IF i <= Len(SyncSports)
    THEN LET rec == Entered("schedule", SyncSports[i], FALSE,
                            ScheduleKey(SyncSports[i]))
         IN IF UseMock
            THEN SaveAndReturn(rec, MockSchedule(SyncSports[i], now), "mock")
            ELSE IF LeagueIdOf(SyncSports[i]) = ""
            THEN SaveAndReturn(rec, <<>>, "noleague")
            ELSE EnterRequest(rec)
    ELSE LET rec == Entered("boxing", "boxing", FALSE, BoxingKey)
         IN IF UseMock
            THEN SaveAndReturn(rec, MockBoxingEvents(now), "mock")
            ELSE EnterRequest(rec)

\* the record of a started fetch
Attempt(i) ==
    IF i <= Len(SyncSports) THEN <<"schedule", SyncSports[i], FALSE>>
    ELSE <<"boxing", "boxing", FALSE>>

\* the provider's answers during a sync run: events, an events list with an
\* element that is no object, a server error, a rate limit
SyncResponses ==
    { Resp("status", 200, JDict(ListOf(<<E1, E2>>), ListOf(<<E1, E2>>))),
      Resp("status", 200, JDict(ListOf(<<E1, EvScalar>>), ListOf(<<E1, EvScalar>>))),
      Resp("status", 500, NoBody),
      Resp("status", 429, NoBody) }

\* sync_sports_data is called: the first fetch starts
SyncSportsData ==
    /\ sync.pc = "idle"
    /\ call.pc = "idle"
    /\ sync' = [sync EXCEPT !.pc = "fetching", !.i = 1,
                            !.attempted = <<Attempt(1)>>]
    /\ SyncLaunch(1)
    /\ UNCHANGED started
    /\ UNCHANGED <<reqVars, rlVars, dciVars, concVars, gateVars, predVars, resyncVars, liveVars>>

\* the fetch in progress has ended: its entry is written, and the next fetch
\* starts or sync_sports_data returns
SyncContinue ==
    /\ sync.pc = "fetching"
    /\ call.pc = "idle"
    /\ LET d == done[1]
           entry == SyncEntry(d)
           n == NextFetch(sync.i, d)
           reported ==
               IF sync.i <= Len(SyncSports)
               THEN [sync EXCEPT !.sports =
                        [s \in DOMAIN sync.sports \cup {SyncSports[sync.i]} |->
                            IF s = SyncSports[sync.i] THEN entry
                            ELSE sync.sports[s]]]
               ELSE [sync EXCEPT !.boxing = entry]
       IN IF n = 0
          THEN /\ sync' = [reported EXCEPT !.pc = "returned", !.i = 0]
               /\ UNCHANGED <<api_key, now, db, call, done, last_save>>
          ELSE /\ sync' = [reported EXCEPT !.i = n,
                                           !.attempted = Append(@, Attempt(n))]
               /\ SyncLaunch(n)
    /\ UNCHANGED started
    /\ UNCHANGED <<reqVars, rlVars, dciVars, concVars, gateVars, predVars, resyncVars, liveVars>>

\* ------------------------------------------- sync_sports_data run again
\* the cache keys sync_sports_data writes
SyncKeys == {ScheduleKey(SyncSports[i]) : i \in DOMAIN SyncSports} \cup {BoxingKey}

\* the cache_key values present in the table
CacheKeys(rows) == {rows[i].cache_key : i \in DOMAIN rows}

NoResync ==
    [again |-> FALSE,     \* a sync run was started before the present one
     first |-> "none",    \* how that run ended: "returned" or "interrupted"
     keys1 |-> {}]        \* the cache keys it left

ResyncInit == resync = NoResync

\* the provider's answers during repeated runs: events, or an events list
\* with an element that is no object
ResyncResponses ==
    { Resp("status", 200, JDict(ListOf(<<E1, E2>>), ListOf(<<E1, E2>>))),
      Resp("status", 200, JDict(ListOf(<<E1, EvScalar>>), ListOf(<<E1, EvScalar>>))) }

\* scheduled_sports_sync or POST /sync calls sync_sports_data after an
\* earlier run has returned
SyncAgain ==
    /\ sync.pc = "returned"
    /\ call.pc = "idle"
    /\ ~resync.again
    /\ resync' = [again |-> TRUE, first |-> "returned", keys1 |-> CacheKeys(db)]
    /\ sync' = [IdleSync EXCEPT !.pc = "fetching", !.i = 1,
                                !.attempted = <<Attempt(1)>>]
    /\ SyncLaunch(1)
    /\ UNCHANGED started
    /\ UNCHANGED <<reqVars, rlVars, dciVars, concVars, gateVars, predVars, liveVars>>

\* the task running sync_sports_data is cancelled while a fetch awaits the
\* provider: what was committed stays, nothing else is written
SyncInterrupted ==
    /\ sync.pc = "fetching"
    /\ call.pc = "http"
    /\ ~resync.again
    /\ resync' = [again |-> TRUE, first |-> "interrupted", keys1 |-> CacheKeys(db)]
    /\ sync' = IdleSync
    /\ call' = IdleCall
    /\ UNCHANGED <<api_key, now, db, done, started, last_save>>
    /\ UNCHANGED <<reqVars, rlVars, dciVars, concVars, gateVars, predVars, liveVars>>

\* ------------------------- the concurrency gate of TheSportsDBClient
\* Concurrent fetch_schedule calls of an aggregator that is not in mock mode.
\* _fetch_schedule_from_providers enters `async with TheSportsDBClient(...)`:
\* every call constructs a client of its own, and the client constructs its
\* own semaphore.  Here only the positions of the calls are kept.
GateCalls == 1..MaxGateCalls

\* the client a call sends its request through: the one it has constructed
ClientOf(c) == c

GateInit ==
    /\ gate = [c \in GateCalls |-> [pc |-> "idle", attempt |-> 0]]
    /\ sem = [k \in GateCalls |-> SemaphorePermits]

\* the answers of the provider, as far as the loop of _request tells them
\* apart: a body or an error that ends the request, a 429, a timeout
GateAnswers == {"ends", "429", "timeout"}

\* the calls suspended in `async with self._semaphore` of client k
GateWaiting(k) == {c \in GateCalls : gate[c].pc = "waiting" /\ ClientOf(c) = k}

\* call c leaves `async with self._semaphore`: the permit goes to a waiting
\* call of the same client, which sends its request, or back to the semaphore
GateRelease(c) ==
    LET k == ClientOf(c) IN
    IF GateWaiting(k) # {}
    THEN LET w == CHOOSE x \in GateWaiting(k) : TRUE IN
         /\ gate' = [gate EXCEPT ![c] = [pc |-> "done", attempt |-> 0],
                                 ![w] = [pc |-> "inflight", attempt |-> 0]]
         /\ UNCHANGED sem
    ELSE /\ gate' = [gate EXCEPT ![c] = [pc |-> "done", attempt |-> 0]]
         /\ sem' = [sem EXCEPT ![k] = @ + 1]

\* fetch_schedule of call c: the client is constructed, _request takes a
\* permit of the client's semaphore and awaits the first HTTP call
GateFetchSchedule(c) ==
    /\ gate[c].pc = "idle"
    /\ LET k == ClientOf(c)
           fresh == [sem EXCEPT ![k] = SemaphorePermits]
       IN IF fresh[k] > 0
          THEN /\ sem' = [fresh EXCEPT ![k] = @ - 1]
               /\ gate' = [gate EXCEPT ![c] = [pc |-> "inflight", attempt |-> 0]]
          ELSE /\ sem' = fresh
               /\ gate' = [gate EXCEPT ![c] = [pc |-> "waiting", attempt |-> 0]]
    /\ UNCHANGED <<aggVars, reqVars, rlVars, dciVars, concVars, syncVars, predVars, resyncVars, liveVars>>

\* the HTTP call of call c completes
GateHttpResponse(c, a) ==
    /\ gate[c].pc = "inflight"
    /\ IF a = "429" \/ (a = "timeout" /\ gate[c].attempt < max_retries - 1)
       THEN /\ gate' = [gate EXCEPT ![c].pc = "sleep"]
            /\ UNCHANGED sem
       ELSE GateRelease(c)
    /\ UNCHANGED <<aggVars, reqVars, rlVars, dciVars, concVars, syncVars, predVars, resyncVars, liveVars>>

\* the backoff sleep of call c is over: the next HTTP call, or the end
GateBackoffOver(c) ==
    /\ gate[c].pc = "sleep"
    /\ IF LoopContinues(gate[c].attempt + 1)
       THEN /\ gate' = [gate EXCEPT ![c] = [pc |-> "inflight",
                                            attempt |-> gate[c].attempt + 1]]
            /\ UNCHANGED sem
       ELSE GateRelease(c)
    /\ UNCHANGED <<aggVars, reqVars, rlVars, dciVars, concVars, syncVars, predVars, resyncVars, liveVars>>

\* ------------------------------------- TheSportsDBClient._request alone
IdleReq ==
    [pc |-> "idle",
     attempt |-> 0,     \* loop variable
     nhttp |-> 0,       \* `await self._client.get` calls made
     waited |-> 0,      \* sum of the backoff waits, in 1/JitterRes seconds
     nwaits |-> 0,      \* number of backoff waits
     seen |-> {},       \* kinds of the responses received
     exc |-> "none",    \* what _request raised
     body |-> NoBody]   \* what _request returned

ReqInit == req = IdleReq /\ nreq = 0

\* _request is called (the previous call has ended) and suspends at its
\* first `await self._client.get`
Request ==
    /\ req.pc \in {"idle", "returned", "raised"}
    /\ UNCHANGED <<aggVars, rlVars, dciVars, xVars>>
    /\ nreq < MaxRequests
    /\ nreq' = nreq + 1
    /\ req' = [IdleReq EXCEPT !.pc = "http", !.nhttp = 1]

\* one `await self._client.get` of _request completes with response r
RequestHttpResponse(r) ==
    /\ req.pc = "http"
    /\ UNCHANGED <<aggVars, rlVars, dciVars, xVars>>
    /\ UNCHANGED nreq
    /\ LET rec == [req EXCEPT !.seen = @ \cup {RespTag(r)}] IN
       IF Retries(r, req.attempt)
       THEN \E jitter \in 0..(JitterRes - 1) :
              req' = [rec EXCEPT !.pc = "sleep",
                                 !.waited = @ + WaitTime(req.attempt, jitter),
                                 !.nwaits = @ + 1]
       ELSE IF r.kind = "status" /\ r.code = 200
       THEN req' = [rec EXCEPT !.pc = "returned", !.body = r.body]
       ELSE req' = [rec EXCEPT !.pc = "raised", !.exc = r.kind]

\* asyncio.sleep returns: the loop continues, or ends with
\* Exception("Max retries exceeded")
RequestBackoffOver ==
    /\ req.pc = "sleep"
    /\ UNCHANGED <<aggVars, rlVars, dciVars, xVars>>
    /\ UNCHANGED nreq
    /\ IF LoopContinues(req.attempt + 1)
       THEN req' = [req EXCEPT !.pc = "http", !.attempt = @ + 1, !.nhttp = @ + 1]
       ELSE req' = [req EXCEPT !.pc = "raised", !.attempt = @ + 1,
                               !.exc = "exhausted"]

\* ------------------- SportsDataIOClient / SportradarClient: _rate_limit
\* the coroutines that call _make_request on the one client
Coroutines == {1, 2}

IdleCo == [pc |-> "idle", wake |-> 0]

RLInit ==
    /\ rl_now = 0
    /\ last_request_time = 0
    /\ co = [p \in Coroutines |-> IdleCo]
    /\ sent = <<>>

\* _rate_limit has returned: _last_request_time is set and session.get sends
SendRequest(p) ==
    /\ last_request_time' = rl_now
    /\ sent' = Append(sent, rl_now)
    /\ co' = [co EXCEPT ![p] = [pc |-> "inflight", wake |-> 0]]

\* _make_request is entered: _rate_limit runs up to its sleep, or through
MakeRequest(p) ==
    /\ co[p].pc = "idle"
    /\ UNCHANGED <<aggVars, reqVars, dciVars, xVars>>
    /\ Len(sent) + Cardinality({q \in Coroutines : co[q].pc = "sleeping"}) < MaxSends
    /\ UNCHANGED rl_now
    /\ LET time_since_last == rl_now - last_request_time IN
       IF time_since_last < rate_limit_delay
       THEN /\ co' = [co EXCEPT ![p] =
                        [pc |-> "sleeping",
                         wake |-> rl_now + (rate_limit_delay - time_since_last)]]
            /\ UNCHANGED <<last_request_time, sent>>
       ELSE SendRequest(p)

\* asyncio.sleep of _rate_limit returns, not before its time
RateLimitWake(p) ==
    /\ co[p].pc = "sleeping"
    /\ UNCHANGED <<aggVars, reqVars, dciVars, xVars>>
    /\ rl_now >= co[p].wake
    /\ UNCHANGED rl_now
    /\ SendRequest(p)

\* the response arrives and _make_request returns
RequestDone(p) ==
    /\ co[p].pc = "inflight"
    /\ UNCHANGED <<aggVars, reqVars, dciVars, xVars>>
    /\ co' = [co EXCEPT ![p] = IdleCo]
    /\ UNCHANGED <<rl_now, last_request_time, sent>>

RLClock ==
    /\ rl_now + RLTick <= RLMaxTime
    /\ UNCHANGED <<aggVars, reqVars, dciVars, xVars>>
    /\ rl_now' = rl_now + RLTick
    /\ UNCHANGED <<last_request_time, co, sent>>

\* ------------------------------------------------------- scoring services
\* Numbers: a percentage or an index p is kept as the integer 100 * p
\* (hundredths); a weighted score is kept as 10000 * score.  Divisions
\* truncate where the code computes in floating point.
\* a key that is missing from a stat bundle (dict.get gives its default);
\* Nil also stands for the None a function works with
Nil == -1
\* a key that is in the bundle with the value None (dict.get gives None)
NullV == -2

Min(a, b) == IF a < b THEN a ELSE b
Max(a, b) == IF a > b THEN a ELSE b
\* dict.get(key, default): the default for a missing key only
Get(v, default) == IF v = Nil THEN default ELSE v
\* dict.get(key): None for a missing key and for a None value
GetNone(v) == IF v = NullV THEN Nil ELSE v

\* BoxingDCIService.normalize, the value and the range in plain units
normalize(value, min_val, max_val) ==
    IF max_val = min_val THEN 5000
    ELSE Max(0, Min(10000, ((value - min_val) * 10000) \div (max_val - min_val)))

\* derive_power_index; ko_pct is Nil for None
derive_power_index(ko_pct, recent_ko_wins) ==
    LET base_power == IF ko_pct # Nil THEN ko_pct ELSE 5000
        ko_bonus == Min(recent_ko_wins * 5, 20) * 100
    IN Min(10000, base_power + ko_bonus)

\* derive_speed_index
derive_speed_index(age0, recent_fight_frequency) ==
    LET age == IF age0 = Nil THEN 28 ELSE age0
        age_factor == IF age < 22 THEN 7000
                      ELSE IF age <= 28 THEN 8500
                      ELSE IF age <= 32 THEN 7500
                      ELSE IF age <= 35 THEN 6000
                      ELSE 4500
        activity_bonus == Min(recent_fight_frequency * 3, 15) * 100
    IN Min(10000, age_factor + activity_bonus)

\* derive_stamina_index; the ratio is kept as 10000 * ratio
derive_stamina_index(decision_wins_ratio, recent_distance_fights) ==
    LET base_stamina == decision_wins_ratio
        distance_bonus == Min(recent_distance_fights * 5, 20) * 100
    IN Min(10000, base_stamina + distance_bonus)

\* derive_defense_score; the ratio is kept as 10000 * ratio
derive_defense_score(ko_losses_ratio, total_losses) ==
    IF total_losses = 0 THEN 9000
    ELSE LET ko_defense == 10000 - ko_losses_ratio
             loss_penalty == Min(total_losses * 2, 20) * 100
         IN Max(3000, ko_defense - loss_penalty)

\* calculate_reach_advantage
calculate_reach_advantage(reach_cm_f1, reach_cm_f2) ==
    IF reach_cm_f1 = Nil \/ reach_cm_f2 = Nil THEN 5000
    ELSE normalize(reach_cm_f1 - reach_cm_f2, -15, 15)

\* calculate_age_factor
calculate_age_factor(age) ==
    IF age = Nil THEN 5000
    ELSE IF 28 <= age /\ age <= 32 THEN 10000
    ELSE IF 25 <= age /\ age < 28 THEN 9000
    ELSE IF 32 < age /\ age <= 35 THEN 8500
    ELSE IF 22 <= age /\ age < 25 THEN 7500
    ELSE IF 35 < age /\ age <= 38 THEN 6000
    ELSE 4000

\* calculate_experience_factor
calculate_experience_factor(total_fights) ==
    Min(10000, (total_fights * 10000) \div 30)

\* calculate_win_streak_score
calculate_win_streak_score(win_streak) ==
    Min(10000, (Min(win_streak, 7) * 10000) \div 7)

\* `x or y` on an optional number: None and 0 are falsy
Or(x, y) == IF x \in {Nil, NullV, 0} THEN y ELSE x

\* BoxingDCIService._extract_fighter_factors raises TypeError: arithmetic or
\* a comparison meets a None that dict.get(key, default) has returned
ExtractFighterFactorsRaises(fighter) ==
    \/ NullV \in {fighter.record_wins, fighter.record_losses, fighter.record_draws}
    \/ fighter.ko_wins = NullV
    \/ fighter.ko_losses = NullV /\ Get(fighter.record_losses, 0) > 0
    \/ fighter.win_streak = NullV
    \/ fighter.power_idx \in {Nil, NullV, 0} /\ fighter.recent_ko_wins = NullV
    \/ fighter.speed_idx \in {Nil, NullV, 0} /\ fighter.recent_fight_frequency = NullV
    \/ fighter.stamina_idx \in {Nil, NullV, 0} /\ fighter.recent_distance_fights = NullV

\* BoxingDCIService._extract_fighter_factors
ExtractFighterFactors(fighter) ==
    LET age == GetNone(fighter.age)
        record_wins == Get(fighter.record_wins, 0)
        record_losses == Get(fighter.record_losses, 0)
        record_draws == Get(fighter.record_draws, 0)
        total_fights == record_wins + record_losses + record_draws
        ko_wins == Get(fighter.ko_wins, (record_wins * 6) \div 10)
        ko_pct == IF GetNone(fighter.ko_pct) = Nil /\ total_fights > 0
                  THEN (ko_wins * 10000) \div total_fights
                  ELSE GetNone(fighter.ko_pct)
        decision_wins == record_wins - ko_wins
        decision_wins_ratio == IF record_wins > 0
                               THEN (decision_wins * 10000) \div record_wins
                               ELSE 3000
        ko_losses == Get(fighter.ko_losses, (record_losses * 4) \div 10)
        ko_losses_ratio == IF record_losses > 0
                           THEN (ko_losses * 10000) \div record_losses
                           ELSE 0
        win_streak == Get(fighter.win_streak, 0)
    IN [power_index |-> Or(fighter.power_idx,
                           derive_power_index(ko_pct, Get(fighter.recent_ko_wins, 0))),
        speed_index |-> Or(fighter.speed_idx,
                           derive_speed_index(age, Get(fighter.recent_fight_frequency, 0))),
        stamina_index |-> Or(fighter.stamina_idx,
                             derive_stamina_index(decision_wins_ratio,
                                                  Get(fighter.recent_distance_fights, 0))),
        defense_score |-> Or(fighter.defense_idx,
                             derive_defense_score(ko_losses_ratio, record_losses)),
        age_factor |-> calculate_age_factor(age),
        experience |-> calculate_experience_factor(total_fights),
        win_streak_score |-> calculate_win_streak_score(win_streak),
        reach_cm |-> GetNone(fighter.reach_cm),
        ko_pct |-> Or(ko_pct, 5000),
        record_wins |-> record_wins,
        record_losses |-> record_losses,
        total_fights |-> total_fights]

\* the weighted sum turned into the fighter's share of the two sums
CalculateFighterDciShare(fighter_factors, opponent_factors) ==
    LET Raw(f, o) == f.power_index * 25 + f.speed_index * 20
                     + f.stamina_index * 15
                     + calculate_reach_advantage(f.reach_cm, o.reach_cm) * 10
                     + f.defense_score * 10 + f.win_streak_score * 10
                     + f.age_factor * 5 + f.experience * 5
        mine == Raw(fighter_factors, opponent_factors)
        theirs == Raw(opponent_factors, fighter_factors)
        total == mine + theirs
    IN IF total = 0 THEN 500000
       ELSE (((mine * 100) \div total) * 100
             + (((mine * 100) % total) * 100) \div total) * 100

\* BoxingDCIService._calculate_fighter_dci, as 10000 * dci
CalculateFighterDci(fighter_factors, opponent_factors) ==
    LET reach_advantage == calculate_reach_advantage(fighter_factors.reach_cm,
                                                     opponent_factors.reach_cm)
        dci == fighter_factors.power_index * 25
               + fighter_factors.speed_index * 20
               + fighter_factors.stamina_index * 15
               + reach_advantage * 10
               + fighter_factors.defense_score * 10
               + fighter_factors.win_streak_score * 10
               + fighter_factors.age_factor * 5
               + fighter_factors.experience * 5
    IN Max(0, Min(1000000, dci))

\* BoxingDCIService._classify_dci on 10000 * score
ClassifyDci(score) ==
    IF score >= 850000 THEN "Dominant Edge"
    ELSE IF score >= 650000 THEN "Balanced Advantage"
    ELSE IF score >= 500000 THEN "Even Matchup"
    ELSE "Potential Upset"

\* what a scoring call gave: nothing yet, or an exception
NoOutput ==
    [computed |-> FALSE, raised |-> FALSE, score1 |-> 0, score2 |-> 0,
     class1 |-> "", class2 |-> "",
     reasoning1 |-> <<>>, reasoning2 |-> <<>>,   \* the phrases, in text order
     factors1 |-> <<>>, factors2 |-> <<>>,       \* the returned factors
     raw1 |-> 0, raw2 |-> 0]     \* the weighted sums, as 10000 * score
RaisedOutput == [NoOutput EXCEPT !.raised = TRUE]

\* one phrase of a reasoning text, if its check triggers
When(triggers, phrase) == IF triggers THEN <<phrase>> ELSE <<>>

\* the text with the generic phrase always at its end
GenerateReasoningAlwaysGeneric(fighter_factors, opponent_factors) ==
    When(fighter_factors.power_index > 7500, "strong power index")
    \o When(fighter_factors.ko_pct > 7000, "high KO rate")
    \o When(fighter_factors.defense_score > 8000, "excellent defense")
    \o When(fighter_factors.win_streak_score > 7000, "strong win streak")
    \o When(fighter_factors.stamina_index > 8000, "superior stamina")
    \o <<"balanced attributes">>

\* BoxingDCIService._generate_reasoning: the phrases joined into the text
\* (the numbers formatted into a phrase are left out)
GenerateReasoning(fighter_factors, opponent_factors) ==
    LET reach_diff == Or(fighter_factors.reach_cm, 0)
                      - Or(opponent_factors.reach_cm, 0)
        reasons ==
            When(fighter_factors.power_index > 7500, "strong power index")
            \o When(fighter_factors.ko_pct > 7000, "high KO rate")
            \o (IF reach_diff > 5 THEN <<"reach advantage">>
                ELSE When(reach_diff < -5, "reach disadvantage"))
            \o (IF fighter_factors.defense_score > 8000
                THEN <<"excellent defense">>
                ELSE When(fighter_factors.defense_score < 5000,
                          "defensive vulnerabilities"))
            \o When(fighter_factors.win_streak_score > 7000, "strong win streak")
            \o When(fighter_factors.stamina_index > 8000, "superior stamina")
            \o (IF fighter_factors.experience > opponent_factors.experience + 2000
                THEN <<"experience advantage">>
                ELSE When(fighter_factors.experience
                            < opponent_factors.experience - 2000,
                          "experience disadvantage"))
    IN IF reasons = <<>> THEN <<"balanced attributes">> ELSE reasons

\* BoxingDCIService.compute_dci: the two scores and classifications
BoxingComputeDci(fighter_one, fighter_two) ==
    IF ExtractFighterFactorsRaises(fighter_one)
       \/ ExtractFighterFactorsRaises(fighter_two)
    THEN RaisedOutput
    ELSE
    LET f1_factors == ExtractFighterFactors(fighter_one)
        f2_factors == ExtractFighterFactors(fighter_two)
        f1_dci == CalculateFighterDci(f1_factors, f2_factors)
        f2_dci == CalculateFighterDci(f2_factors, f1_factors)
    IN [computed |-> TRUE, raised |-> FALSE,
        score1 |-> f1_dci, score2 |-> f2_dci,
        class1 |-> ClassifyDci(f1_dci), class2 |-> ClassifyDci(f2_dci),
        reasoning1 |-> GenerateReasoning(f1_factors, f2_factors),
        reasoning2 |-> GenerateReasoning(f2_factors, f1_factors),
        factors1 |-> f1_factors, factors2 |-> f2_factors,
        raw1 |-> f1_dci, raw2 |-> f2_dci]

\* MMADCIService._extract_factors raises TypeError on a None value
MMAExtractFactorsRaises(fighter, opponent) ==
    \/ /\ GetNone(fighter.strike_accuracy) = Nil
       /\ \/ fighter.total_strikes = NullV
          \/ Get(fighter.total_strikes, 0) > 0 /\ fighter.landed_strikes = NullV
    \/ /\ GetNone(fighter.takedown_success) = Nil
       /\ \/ fighter.takedowns_attempted = NullV
          \/ Get(fighter.takedowns_attempted, 0) > 0
             /\ fighter.takedowns_landed = NullV
    \/ /\ GetNone(fighter.stamina_index) = Nil
       /\ NullV \in {fighter.total_fights, fighter.finishes}
    \/ fighter.significant_strikes_per_min = NullV
    \/ /\ GetNone(fighter.defense_efficiency) = Nil
       /\ fighter.strikes_absorbed_per_min = NullV
    \/ NullV \in {fighter.reach_cm, opponent.reach_cm}
    \/ NullV \in {fighter.win_streak, fighter.age, fighter.total_fights}

\* MMADCIService._extract_factors
MMAExtractFactors(fighter, opponent) ==
    LET strike_accuracy ==
            IF GetNone(fighter.strike_accuracy) # Nil THEN fighter.strike_accuracy
            ELSE LET total_strikes == Get(fighter.total_strikes, 0)
                     landed_strikes == Get(fighter.landed_strikes, 0)
                 IN IF total_strikes > 0
                    THEN (landed_strikes * 10000) \div total_strikes ELSE 5000
        takedown_success ==
            IF GetNone(fighter.takedown_success) # Nil THEN fighter.takedown_success
            ELSE LET attempted == Get(fighter.takedowns_attempted, 0)
                     landed == Get(fighter.takedowns_landed, 0)
                 IN IF attempted > 0 THEN (landed * 10000) \div attempted ELSE 5000
        stamina ==
            IF GetNone(fighter.stamina_index) # Nil THEN fighter.stamina_index
            ELSE LET fights == Get(fighter.total_fights, 10)
                     finishes == Get(fighter.finishes, 5)
                 IN Min(100, Max(0, 50 + (fights - finishes) * 2)) * 100
        significant_strikes == Get(fighter.significant_strikes_per_min, 350)
        defense_efficiency ==
            IF GetNone(fighter.defense_efficiency) # Nil THEN fighter.defense_efficiency
            ELSE Max(0, 10000 - Get(fighter.strikes_absorbed_per_min, 300) * 10)
        reach_diff == Get(fighter.reach_cm, 180) - Get(opponent.reach_cm, 180)
        reach_advantage == Min(10000, Max(0, 5000 + reach_diff * 50))
        recent_wins == Min(100, Get(fighter.win_streak, 0) * 20) * 100
        age == Get(fighter.age, 28)
        fights == Get(fighter.total_fights, 10)
        age_experience ==
            50 + (IF 24 <= age /\ age <= 32 THEN 20 ELSE 0)
               + (IF fights > 15 THEN 15 ELSE IF fights > 10 THEN 10 ELSE 0)
    IN [strike_accuracy |-> strike_accuracy,
        takedown_success |-> takedown_success,
        stamina |-> stamina,
        significant_strikes |-> significant_strikes * 10,
        defense_efficiency |-> defense_efficiency,
        reach_advantage |-> reach_advantage,
        recent_win_streak |-> recent_wins,
        age_experience_factor |-> Min(100, age_experience) * 100]

\* MMADCIService._calculate_score, as 10000 * score
MMACalculateScore(factors) ==
    factors.strike_accuracy * 20
    + factors.takedown_success * 15
    + factors.stamina * 15
    + factors.significant_strikes * 10
    + factors.defense_efficiency * 10
    + factors.reach_advantage * 10
    + factors.recent_win_streak * 10
    + factors.age_experience_factor * 10

\* round(score / total * 100, 2) in hundredths, for score >= 0 and total > 0:
\* to the nearest hundredth, a tie to the even one (the two steps of the
\* division keep the intermediate products small)
RoundedShare(score, total) ==
    LET d1 == (score * 100) \div total
        r1 == (score * 100) % total
        d2 == (r1 * 100) \div total
        r2 == (r1 * 100) % total
        q == d1 * 100 + d2
    IN IF 2 * r2 > total THEN q + 1
       ELSE IF 2 * r2 < total THEN q
       ELSE IF q % 2 = 0 THEN q ELSE q + 1

\* MMADCIService._normalize_score, in hundredths
MMANormalizeScore(score, opponent_score) ==
    LET total == score + opponent_score IN
    IF total = 0 THEN 5000
    ELSE IF score >= 0 /\ total > 0 THEN RoundedShare(score, total)
    ELSE IF score <= 0 /\ total < 0 THEN RoundedShare(0 - score, 0 - total)
    ELSE IF total > 0 THEN 0 - RoundedShare(0 - score, total)
    ELSE 0 - RoundedShare(score, 0 - total)

\* MMADCIService._get_classification on a score in hundredths
MMAGetClassification(score) ==
    IF score >= 8500 THEN "Dominant Edge"
    ELSE IF score >= 6500 THEN "Technical Advantage"
    ELSE IF score >= 5000 THEN "Balanced Match"
    ELSE "Potential Upset"

\* MMADCIService._generate_reasoning: the strengths of the text
MMAGenerateReasoning(factors) ==
    LET strengths ==
            When(factors.strike_accuracy > 7000, "elite striking accuracy")
            \o When(factors.takedown_success > 7000, "dominant wrestling")
            \o When(factors.defense_efficiency > 7000, "exceptional defense")
            \o When(factors.recent_win_streak > 6000, "strong momentum")
    IN IF strengths = <<>> THEN <<"balanced skillset">> ELSE strengths

\* MMADCIService.compute_dci: the two scores (as 10000 * score) and classes
MMAComputeDci(fighter_one, fighter_two) ==
    IF MMAExtractFactorsRaises(fighter_one, fighter_two)
       \/ MMAExtractFactorsRaises(fighter_two, fighter_one)
    THEN RaisedOutput
    ELSE
    LET f1_factors == MMAExtractFactors(fighter_one, fighter_two)
        f2_factors == MMAExtractFactors(fighter_two, fighter_one)
        f1_score == MMACalculateScore(f1_factors)
        f2_score == MMACalculateScore(f2_factors)
        f1_normalized == MMANormalizeScore(f1_score, f2_score)
        f2_normalized == MMANormalizeScore(f2_score, f1_score)
    IN [computed |-> TRUE, raised |-> FALSE,
        score1 |-> f1_normalized * 100, score2 |-> f2_normalized * 100,
        class1 |-> MMAGetClassification(f1_normalized),
        class2 |-> MMAGetClassification(f2_normalized),
        reasoning1 |-> MMAGenerateReasoning(f1_factors),
        reasoning2 |-> MMAGenerateReasoning(f2_factors),
        factors1 |-> f1_factors, factors2 |-> f2_factors,
        raw1 |-> f1_score, raw2 |-> f2_score]

\* TennisDCIService._extract_factors for the requested surface; the stats
\* are kept in hundredths, ranking, matches and wins as plain numbers
TennisExtractFactors(player) ==
    LET aces_per_match == Get(player.aces_per_match, 800)
        unforced_errors == Get(player.unforced_errors_per_match, 2500)
        stamina_index ==
            IF player.stamina_index # Nil THEN player.stamina_index
            ELSE LET matches_played == Get(player.matches_played, 50)
                     five_setters == Get(player.five_set_wins, 5)
                 IN Min(10000, 5000 + five_setters * 500
                                + Min(2000, matches_played * 20))
        ranking == Get(player.ranking, 50)
        wins == Get(player.last_10_wins, 5)
    IN [first_serve_pct |-> Get(player.first_serve_pct, 6500),
        break_points_saved |-> Get(player.break_points_saved_pct, 6000),
        aces_per_match |-> Min(10000, aces_per_match * 5),
        unforced_errors |-> Min(10000, unforced_errors * 2),
        stamina_index |-> stamina_index,
        ranking_factor |-> Max(0, 100 - ranking) * 100,
        surface_win_rate |-> Get(player.surface_win_pct, 5000),
        recent_form |-> wins * 1000]

\* TennisDCIService._calculate_score, as 10000 * score
TennisCalculateScore(factors) ==
    factors.first_serve_pct * 20
    + factors.break_points_saved * 15
    + factors.aces_per_match * 10
    - factors.unforced_errors * 10
    + factors.stamina_index * 15
    + factors.ranking_factor * 10
    + factors.surface_win_rate * 10
    + factors.recent_form * 10

\* abs()
Abs(x) == IF x < 0 THEN 0 - x ELSE x

\* TennisDCIService._normalize_score, in hundredths
TennisNormalizeScore(score, opponent_score) ==
    LET total == Abs(score) + Abs(opponent_score) IN
    IF total = 0 THEN 5000 ELSE RoundedShare(Abs(score), total)

\* TennisDCIService._generate_reasoning: the strengths of the text
TennisGenerateReasoning(factors) ==
    LET strengths ==
            When(factors.first_serve_pct > 7000, "powerful serve")
            \o When(factors.break_points_saved > 7000, "clutch defense")
            \o When(factors.surface_win_rate > 6500, "strong court record")
            \o When(factors.recent_form > 7000, "excellent recent form")
    IN IF strengths = <<>> THEN <<"balanced game">> ELSE strengths

\* TennisDCIService.compute_dci; _get_classification is that of MMA
TennisComputeDci(player_one, player_two) ==
    LET p1_factors == TennisExtractFactors(player_one)
        p2_factors == TennisExtractFactors(player_two)
        p1_score == TennisCalculateScore(p1_factors)
        p2_score == TennisCalculateScore(p2_factors)
        p1_normalized == TennisNormalizeScore(p1_score, p2_score)
        p2_normalized == TennisNormalizeScore(p2_score, p1_score)
    IN [computed |-> TRUE, raised |-> FALSE,
        score1 |-> p1_normalized * 100, score2 |-> p2_normalized * 100,
        class1 |-> MMAGetClassification(p1_normalized),
        class2 |-> MMAGetClassification(p2_normalized),
        reasoning1 |-> TennisGenerateReasoning(p1_factors),
        reasoning2 |-> TennisGenerateReasoning(p2_factors),
        factors1 |-> p1_factors, factors2 |-> p2_factors,
        raw1 |-> p1_score, raw2 |-> p2_score]

\* round(x, 1) of a score kept as 10000 * score: to the nearest tenth, a tie
\* to the even tenth
RoundTenth(x) ==
    LET q == x \div 1000
        r == x % 1000
    IN IF r > 500 THEN (q + 1) * 1000
       ELSE IF r < 500 THEN q * 1000
       ELSE IF q % 2 = 0 THEN q * 1000 ELSE (q + 1) * 1000

\* GolfIntelligence.calculate_dci: the rates of player_stats are kept in
\* hundredths (0.65 as 65), strokes_gained in hundredths of a stroke; the
\* returned dci_score (rounded to a tenth, as 10000 * score) and the
\* confidence_level, which is decided on the score before rounding
GolfCalculateDci(player_stats) ==
    IF \E k \in DOMAIN player_stats : player_stats[k] = NullV
    THEN RaisedOutput
    ELSE
    LET driving_accuracy == Get(player_stats.driving_accuracy, 65)
        strokes_gained == Get(player_stats.strokes_gained, 0)
        birdie_conversion == Get(player_stats.birdie_conversion, 20)
        sand_saves == Get(player_stats.sand_saves, 50)
        consistency == Get(player_stats.consistency, 70)
        stamina == Get(player_stats.stamina, 75)
        weather_impact == Get(player_stats.weather_impact, 70)
        form == Get(player_stats.recent_form, 70)
        \* 10 * 100 * strokes_gained_normalized
        strokes_gained_normalized == strokes_gained + 500
        dci_score == (driving_accuracy * 15 + birdie_conversion * 15
                      + sand_saves * 10 + consistency * 15 + stamina * 10
                      + weather_impact * 10 + form * 5) * 100
                     + strokes_gained_normalized * 20 * 10
        confidence == IF dci_score >= 800000 THEN "Excellent"
                      ELSE IF dci_score >= 700000 THEN "Strong"
                      ELSE IF dci_score >= 600000 THEN "Moderate"
                      ELSE "Weak"
    IN [NoOutput EXCEPT !.computed = TRUE,
                        !.score1 = RoundTenth(dci_score),
                        !.class1 = confidence]

\* stat bundles of golfers
NoGolfStats ==
    [driving_accuracy |-> Nil, strokes_gained |-> Nil, birdie_conversion |-> Nil,
     sand_saves |-> Nil, consistency |-> Nil, stamina |-> Nil,
     weather_impact |-> Nil, recent_form |-> Nil]

GolfLevel(rate, strokes) ==
    [driving_accuracy |-> rate, strokes_gained |-> strokes,
     birdie_conversion |-> rate, sand_saves |-> rate, consistency |-> rate,
     stamina |-> rate, weather_impact |-> rate, recent_form |-> rate]

GolfPlayers ==
    {NoGolfStats, GolfLevel(85, 300), GolfLevel(95, 450), GolfLevel(70, 100),
     GolfLevel(40, -200), [NoGolfStats EXCEPT !.strokes_gained = 241]}

\* stat bundles of boxers: the two of _get_mock_fighter_data, an empty dict,
\* a veteran without explicit indices, a newcomer with a short record
NoFighter ==
    [age |-> Nil, record_wins |-> Nil, record_losses |-> Nil,
     record_draws |-> Nil, ko_pct |-> Nil, ko_wins |-> Nil, ko_losses |-> Nil,
     reach_cm |-> Nil, power_idx |-> Nil, speed_idx |-> Nil,
     stamina_idx |-> Nil, defense_idx |-> Nil, win_streak |-> Nil,
     recent_ko_wins |-> Nil, recent_fight_frequency |-> Nil,
     recent_distance_fights |-> Nil]

FighterOne ==
    [NoFighter EXCEPT !.age = 29, !.record_wins = 29, !.record_losses = 0,
        !.record_draws = 0, !.ko_pct = 9310, !.ko_wins = 27, !.ko_losses = 0,
        !.reach_cm = 170, !.power_idx = 9500, !.speed_idx = 8800,
        !.stamina_idx = 7500, !.defense_idx = 8200, !.win_streak = 29]

FighterTwo ==
    [NoFighter EXCEPT !.age = 25, !.record_wins = 31, !.record_losses = 0,
        !.record_draws = 0, !.ko_pct = 4840, !.ko_wins = 15, !.ko_losses = 0,
        !.reach_cm = 178, !.power_idx = 7200, !.speed_idx = 9200,
        !.stamina_idx = 9000, !.defense_idx = 8800, !.win_streak = 31]

Veteran ==
    [NoFighter EXCEPT !.age = 36, !.record_wins = 20, !.record_losses = 8,
        !.record_draws = 2, !.ko_wins = 9, !.ko_losses = 3, !.reach_cm = 183,
        !.win_streak = 1, !.recent_ko_wins = 1, !.recent_fight_frequency = 2,
        !.recent_distance_fights = 3]

Newcomer ==
    [NoFighter EXCEPT !.age = 21, !.record_wins = 3, !.record_losses = 1,
        !.power_idx = 0, !.defense_idx = 4000, !.win_streak = 2]

\* _fighter_to_dict of a stored fighter with its stat columns unset: the
\* keys are there, the values are None
UnsetFighter ==
    [NoFighter EXCEPT !.age = NullV, !.record_wins = NullV,
        !.record_losses = NullV, !.record_draws = NullV, !.ko_pct = NullV,
        !.ko_wins = NullV, !.ko_losses = NullV, !.reach_cm = NullV,
        !.power_idx = NullV, !.speed_idx = NullV, !.stamina_idx = NullV,
        !.defense_idx = NullV, !.win_streak = NullV]

\* a stored fighter with the record set and the other columns unset
RecordOnly ==
    [UnsetFighter EXCEPT !.record_wins = 12, !.record_losses = 2,
        !.record_draws = 0, !.ko_wins = 7, !.ko_losses = 1, !.win_streak = 3]

\* the two bundles of the documented matchup: the indices, the streak, the
\* reach, the age and the KO rate, no record
MatchupA ==
    [NoFighter EXCEPT !.power_idx = 9500, !.speed_idx = 8800,
        !.stamina_idx = 7500, !.defense_idx = 8200, !.win_streak = 29,
        !.reach_cm = 170, !.age = 29, !.ko_pct = 9310]

MatchupB ==
    [NoFighter EXCEPT !.power_idx = 7200, !.speed_idx = 9200,
        !.stamina_idx = 9000, !.defense_idx = 8800, !.win_streak = 31,
        !.reach_cm = 178, !.age = 25, !.ko_pct = 4840]

\* a boxer whose explicit stats trigger none of the reasoning checks
Journeyman ==
    [NoFighter EXCEPT !.power_idx = 6000, !.speed_idx = 6000,
        !.stamina_idx = 6000, !.defense_idx = 6000, !.win_streak = 2,
        !.age = 30, !.ko_pct = 4000, !.reach_cm = 174]

BoxingFighters ==
    { [f EXCEPT !.reach_cm = r] :
        f \in {NoFighter, FighterOne, FighterTwo, Veteran, Newcomer},
        r \in {Nil, 170, 178, 190} }
    \cup {UnsetFighter, RecordOnly, MatchupA, MatchupB, Journeyman}

\* stat bundles of MMA fighters
NoMMAFighter ==
    [strike_accuracy |-> Nil, total_strikes |-> Nil, landed_strikes |-> Nil,
     takedown_success |-> Nil, takedowns_attempted |-> Nil,
     takedowns_landed |-> Nil, stamina_index |-> Nil, total_fights |-> Nil,
     finishes |-> Nil, significant_strikes_per_min |-> Nil,
     defense_efficiency |-> Nil, strikes_absorbed_per_min |-> Nil,
     reach_cm |-> Nil, win_streak |-> Nil, age |-> Nil]

Striker ==
    [NoMMAFighter EXCEPT !.strike_accuracy = 5830, !.takedown_success = 3300,
        !.stamina_index = 8000, !.significant_strikes_per_min = 520,
        !.defense_efficiency = 6100, !.reach_cm = 193, !.win_streak = 4,
        !.age = 27, !.total_fights = 18]

Grappler ==
    [NoMMAFighter EXCEPT !.total_strikes = 300, !.landed_strikes = 127,
        !.takedowns_attempted = 21, !.takedowns_landed = 13,
        !.total_fights = 12, !.finishes = 9,
        !.strikes_absorbed_per_min = 410, !.reach_cm = 178,
        !.win_streak = 1, !.age = 34]

\* a fighter bundle with the derived indices null and the reach missing
NullIndices ==
    [Grappler EXCEPT !.strike_accuracy = NullV, !.takedown_success = NullV,
        !.stamina_index = NullV, !.defense_efficiency = NullV, !.reach_cm = Nil]

\* a fighter bundle with a null reach
NullReach == [Striker EXCEPT !.reach_cm = NullV]

MMAFighters ==
    { [f EXCEPT !.win_streak = w] :
        f \in {NoMMAFighter, Striker, Grappler}, w \in {Nil, 0, 2, 7} }
    \cup {NullIndices, NullReach}

\* stat bundles of tennis players: an empty dict, a player whose factors all
\* come to 50, a top seed, and two players with the lowest stats, one of
\* them with a first serve
NoTennisPlayer ==
    [first_serve_pct |-> Nil, break_points_saved_pct |-> Nil,
     aces_per_match |-> Nil, unforced_errors_per_match |-> Nil,
     stamina_index |-> Nil, matches_played |-> Nil, five_set_wins |-> Nil,
     ranking |-> Nil, surface_win_pct |-> Nil, last_10_wins |-> Nil]

TennisLevel(pct, aces, errors, rank, wins) ==
    [NoTennisPlayer EXCEPT !.first_serve_pct = pct,
        !.break_points_saved_pct = pct, !.aces_per_match = aces,
        !.unforced_errors_per_match = errors, !.stamina_index = pct,
        !.ranking = rank, !.surface_win_pct = pct, !.last_10_wins = wins]

TennisPlayers ==
    { NoTennisPlayer,
      TennisLevel(5000, 1000, 2500, 50, 5),
      TennisLevel(8000, 1200, 1800, 3, 9),
      TennisLevel(0, 0, 5000, 150, 0),
      [TennisLevel(0, 0, 5000, 150, 0) EXCEPT !.first_serve_pct = 7500] }

DCIInit ==
    /\ dci_in = [sport |-> "none"]
    /\ dci_out = NoOutput

\* BoxingDCIService.compute_dci is called
BoxingDCI(f1, f2) ==
    /\ UNCHANGED <<aggVars, reqVars, rlVars, xVars>>
    /\ dci_in' = [sport |-> "boxing", one |-> f1, two |-> f2]
    /\ dci_out' = BoxingComputeDci(f1, f2)

\* MMADCIService.compute_dci is called
MMADCI(f1, f2) ==
    /\ UNCHANGED <<aggVars, reqVars, rlVars, xVars>>
    /\ dci_in' = [sport |-> "mma", one |-> f1, two |-> f2]
    /\ dci_out' = MMAComputeDci(f1, f2)

\* TennisDCIService.compute_dci is called
TennisDCI(p1, p2) ==
    /\ UNCHANGED <<aggVars, reqVars, rlVars, xVars>>
    /\ dci_in' = [sport |-> "tennis", one |-> p1, two |-> p2]
    /\ dci_out' = TennisComputeDci(p1, p2)

\* GolfIntelligence.calculate_dci is called
GolfDCI(stats) ==
    /\ UNCHANGED <<aggVars, reqVars, rlVars, xVars>>
    /\ dci_in' = [sport |-> "golf", one |-> stats]
    /\ dci_out' = GolfCalculateDci(stats)

\* ------------------------------------------------------ PredictionEngine
\* Numbers: scores, rates and percentages are kept in hundredths.
\* team data: not passed (None or an empty dict), or a dict whose missing
\* keys are Nil
NoTeamData ==
    [given |-> FALSE, recent_wins |-> Nil, recent_games |-> Nil,
     avg_points_scored |-> Nil, avg_points_allowed |-> Nil,
     injured_key_players |-> Nil, days_rest |-> Nil, travel_distance |-> Nil,
     performance_variance |-> Nil, consistency_score |-> Nil]

TeamData(wins, games, scored, allowed, injured, rest, travel, variance, consistency) ==
    [given |-> TRUE, recent_wins |-> wins, recent_games |-> games,
     avg_points_scored |-> scored, avg_points_allowed |-> allowed,
     injured_key_players |-> injured, days_rest |-> rest,
     travel_distance |-> travel, performance_variance |-> variance,
     consistency_score |-> consistency]

\* _generate_mock_team_data: random.seed(hash(team_name) % 10000) and nine
\* draws; within one process the result is a fixed function of the name
MockTeamData(team_name) ==
    IF team_name = "home" THEN TeamData(6, 10, 28, 24, 1, 4, 800, 40, 70)
    ELSE TeamData(4, 10, 25, 27, 2, 2, 1500, 60, 60)

\* the tenth draw of the generator after that seeding, as uniform(-10, 10)
SeededDraw(team_name) == IF team_name = "home" THEN 310 ELSE -540

\* the values random.uniform(-10, 10) can give when the generator was not
\* seeded during the call
RandomDraws == {-1000, -250, 0, 1000}

\* analyze_team_momentum
analyze_team_momentum(team_data) ==
    LET recent_wins == Get(team_data.recent_wins, 0)
        recent_games == Get(team_data.recent_games, 1)
        win_rate60 == (recent_wins * 6000) \div Max(recent_games, 1)
        point_differential == Get(team_data.avg_points_scored, 0)
                              - Get(team_data.avg_points_allowed, 0)
        momentum == win_rate60 + Min(point_differential * 400, 4000)
    IN Max(0, Min(10000, momentum))

\* analyze_health_factor
analyze_health_factor(team_data) ==
    LET injured_key_players == Get(team_data.injured_key_players, 0)
        days_rest == Get(team_data.days_rest, 3)
        travel_distance == Get(team_data.travel_distance, 0)
        health == 10000 - injured_key_players * 1500
                  - Max(0, 3 - days_rest) * 1000
                  - Min(travel_distance \div 10, 2000)
    IN Max(0, Min(10000, health))

\* calculate_volatility
calculate_volatility(team_data) ==
    LET performance_variance == Get(team_data.performance_variance, 50)
        consistency_score == Get(team_data.consistency_score, 70)
        volatility == performance_variance * 50 + (100 - consistency_score) * 50
    IN Max(0, Min(10000, volatility))

\* calculate_dci and round(dci_score, 2), in hundredths
calculate_dci(historical_accuracy, momentum_stability, health_factor, volatility_penalty) ==
    LET dci == historical_accuracy * 4 + momentum_stability * 3
               + health_factor * 2 - volatility_penalty
    IN Max(0, Min(10000, (dci + 5) \div 10))

\* predict_game; `draw` is what the unseeded generator gives this call
predict_game(home_team, away_team, home_arg, away_arg, draw) ==
    LET home_team_data == IF home_arg.given THEN home_arg
                          ELSE MockTeamData(home_team)
        away_team_data == IF away_arg.given THEN away_arg
                          ELSE MockTeamData(away_team)
        home_momentum == analyze_team_momentum(home_team_data)
        away_momentum == analyze_team_momentum(away_team_data)
        home_health == analyze_health_factor(home_team_data)
        away_health == analyze_health_factor(away_team_data)
        home_volatility == calculate_volatility(home_team_data)
        away_volatility == calculate_volatility(away_team_data)
        home_score == home_momentum + home_health - home_volatility + 500
        away_score == away_momentum + away_health - away_volatility
        home_wins == home_score > away_score
        winner_data == IF home_wins THEN home_team_data ELSE away_team_data
        confidence == IF home_wins
                      THEN Min(9500, 5000 + (home_score - away_score) \div 2)
                      ELSE Min(9500, 5000 + (away_score - home_score) \div 2)
        \* random.uniform(-10, 10): the generator was seeded by the last
        \* _generate_mock_team_data of this call, or not at all
        uniform == IF ~away_arg.given THEN SeededDraw(away_team)
                   ELSE IF ~home_arg.given THEN SeededDraw(home_team)
                   ELSE draw
        historical_accuracy == 7500 + uniform
    IN [predicted_winner |-> IF home_wins THEN home_team ELSE away_team,
        confidence |-> confidence,
        dci_score |-> calculate_dci(historical_accuracy,
                                    analyze_team_momentum(winner_data),
                                    analyze_health_factor(winner_data),
                                    calculate_volatility(winner_data))]

\* team data the callers pass
TeamDatas ==
    { NoTeamData,
      TeamData(8, 10, 31, 22, 0, 5, 200, 30, 85),
      TeamData(3, 10, 21, 29, 3, 1, 1800, 70, 55),
      [NoTeamData EXCEPT !.given = TRUE, !.recent_wins = 5, !.recent_games = 8] }

PredInit == preds = <<>>

\* prediction_engine.predict_game(game_id, home_team, away_team, sport, ...)
PredictGame(home_arg, away_arg, draw) ==
    /\ preds' = LET p == [home |-> home_arg, away |-> away_arg,
                          out |-> predict_game("home", "away", home_arg,
                                               away_arg, draw)]
                IN IF preds = <<>> THEN <<p>> ELSE <<p, preds[1]>>
    /\ UNCHANGED <<aggVars, reqVars, rlVars, dciVars, concVars, syncVars, gateVars, resyncVars, liveVars>>

\* ------------------------------------------------------- LiveDataService
\* _map_sport_to_type: sport_map, the SportType values as their strings
sport_map ==
    [s \in {"nfl", "nba", "mlb", "nhl", "soccer", "premier_league", "golf",
            "tennis", "mma", "boxing", "college_football", "cfb",
            "volleyball", "rugby", "cricket"} |->
        CASE s = "premier_league" -> "soccer"
          [] s = "college_football" -> "cfb"
          [] OTHER -> s]

\* _map_sport_to_type: sport_map.get(sport.lower(), SportType.NFL)
MapSportToType(sport) ==
    IF Lower(sport) \in DOMAIN sport_map THEN sport_map[Lower(sport)] ELSE "nfl"

\* the sport types for which the function has a branch calling the provider
LiveBranches(fn) ==
    CASE fn = "get_upcoming_games" ->
            {"nfl", "nba", "mlb", "nhl", "soccer", "golf", "tennis", "mma",
             "boxing", "cfb"}
      [] fn = "get_scores" -> {"nfl", "nba", "mlb", "nhl"}
      [] fn = "get_standings" -> {"nfl", "nba", "mlb", "nhl", "soccer", "cfb"}

\* what the provider request of a call comes to: a list, None (any answer
\* but a 200, a timeout), or an exception in the block of the client
LiveAnswers == {"data", "none", "raises"}

\* sport identifiers the callers pass to the live data functions
LiveSports == {"nfl", "NBA", "premier_league", "rugby", "nascar", "curling"}

\* the returned list: data of a provider's sport endpoint, the empty list, or
\* the mock list of the function built for `label`
LiveResult(source, data_sport, label) ==
    [source |-> source, data_sport |-> data_sport, label |-> label]

\* get_upcoming_games, get_scores, get_standings: the list returned
LiveFetch(fn, use_mock, sport, answer) ==
    IF use_mock THEN LiveResult("mock", "", sport)
    ELSE IF answer = "raises" THEN LiveResult("mock", "", sport)
    ELSE LET sport_type == MapSportToType(sport) IN
         IF sport_type \in LiveBranches(fn)
         THEN IF answer = "data" THEN LiveResult("provider", sport_type, "")
              ELSE LiveResult("empty", "", "")
         ELSE LiveResult("empty", "", "")

LiveInit == live = <<>>

\* the calls kept after a call of `fn` has returned
LiveCalled(fn, use_mock, sport, answer) ==
    LET c == [fn |-> fn, use_mock |-> use_mock, sport |-> sport,
              result |-> LiveFetch(fn, use_mock, sport, answer)]
    IN IF live = <<>> THEN <<c>> ELSE <<c, live[1]>>

\* LiveDataService.get_upcoming_games(sport)
GetUpcomingGames(use_mock, sport, answer) ==
    /\ live' = LiveCalled("get_upcoming_games", use_mock, sport, answer)
    /\ UNCHANGED <<aggVars, reqVars, rlVars, dciVars, concVars, syncVars, gateVars, predVars, resyncVars>>

\* LiveDataService.get_scores(sport)
GetScores(use_mock, sport, answer) ==
    /\ live' = LiveCalled("get_scores", use_mock, sport, answer)
    /\ UNCHANGED <<aggVars, reqVars, rlVars, dciVars, concVars, syncVars, gateVars, predVars, resyncVars>>

\* LiveDataService.get_standings(sport)
GetStandings(use_mock, sport, answer) ==
    /\ live' = LiveCalled("get_standings", use_mock, sport, answer)
    /\ UNCHANGED <<aggVars, reqVars, rlVars, dciVars, concVars, syncVars, gateVars, predVars, resyncVars>>

\* ------------------------------------------- router: GET /schedule/{sport}
\* get_sport_schedule(sport, use_cache): the response built from the events
\* that the fetch_schedule call `d` of the route returned
get_sport_schedule(d) ==
    [sport |-> d.sport,
     events |-> d.result,
     count |-> Len(d.result),
     cached |-> d.use_cache,
     sources_used |-> IF d.result # <<>> THEN d.result[1].sources_used ELSE ""]

\* ---------------------------------------------------------- specifications
Init == AggInit /\ ReqInit /\ RLInit /\ DCIInit /\ ConcInit /\ SyncInit /\ GateInit /\ PredInit /\ ResyncInit /\ LiveInit

\* the aggregator, its calls made one after another
Next ==
    \/ \E s \in CallSports, u \in BOOLEAN : FetchSchedule(s, u)
    \/ \E u \in BOOLEAN : FetchUpcomingBoxing(u)
    \/ \E r \in Responses : HttpResponse(r)
    \/ BackoffOver
    \/ Tick

Spec == Init /\ [][Next]_vars

\* one provider client and its _request calls
NextRequest ==
    \/ Request
    \/ \E r \in Responses : RequestHttpResponse(r)
    \/ RequestBackoffOver

SpecRequest == Init /\ [][NextRequest]_vars

\* one rate-limited client used by concurrent coroutines
NextRateLimit ==
    \/ \E p \in Coroutines : MakeRequest(p)
    \/ \E p \in Coroutines : RateLimitWake(p)
    \/ \E p \in Coroutines : RequestDone(p)
    \/ RLClock

SpecRateLimit == Init /\ [][NextRateLimit]_vars

\* the scoring services applied to pairs of stat bundles
NextDCI ==
    \/ \E f1, f2 \in BoxingFighters : BoxingDCI(f1, f2)
    \/ \E f1, f2 \in MMAFighters : MMADCI(f1, f2)
    \/ \E stats \in GolfPlayers : GolfDCI(stats)
    \/ \E p1, p2 \in TennisPlayers : TennisDCI(p1, p2)

SpecDCI == Init /\ [][NextDCI]_vars

\* fetch_schedule calls for one sport running concurrently on one event loop
NextConcurrent ==
    \/ \E c \in ConcCalls, u \in BOOLEAN : ConcFetchSchedule(c, u)
    \/ \E c \in ConcCalls, r \in Responses : ConcHttpResponse(c, r)
    \/ \E c \in ConcCalls : ConcBackoffOver(c)
    \/ Tick

SpecConcurrent == Init /\ [][NextConcurrent]_vars

\* one sync_sports_data run on an aggregator
NextSync ==
    \/ SyncSportsData
    \/ SyncContinue
    \/ \E r \in SyncResponses : HttpResponse(r)
    \/ BackoffOver

SpecSync == Init /\ [][NextSync]_vars

\* sync_sports_data run, then run again or re-triggered after a cancelled run
NextResync ==
    \/ SyncSportsData
    \/ SyncContinue
    \/ \E r \in ResyncResponses : HttpResponse(r)
    \/ SyncAgain
    \/ SyncInterrupted

SpecResync == Init /\ [][NextResync]_vars

\* concurrent fetch_schedule calls and the semaphores of their clients
NextGate ==
    \/ \E c \in GateCalls : GateFetchSchedule(c)
    \/ \E c \in GateCalls, a \in GateAnswers : GateHttpResponse(c, a)
    \/ \E c \in GateCalls : GateBackoffOver(c)

SpecGate == Init /\ [][NextGate]_vars

\* the prediction engine called again and again
NextPredict ==
    \E h, a \in TeamDatas, d \in RandomDraws : PredictGame(h, a, d)

SpecPredict == Init /\ [][NextPredict]_vars

\* the live data functions called one after another
NextLive ==
    \/ \E m \in BOOLEAN, s \in LiveSports, a \in LiveAnswers : GetUpcomingGames(m, s, a)
    \/ \E m \in BOOLEAN, s \in LiveSports, a \in LiveAnswers : GetScores(m, s, a)
    \/ \E m \in BOOLEAN, s \in LiveSports, a \in LiveAnswers : GetStandings(m, s, a)

SpecLive == Init /\ [][NextLive]_vars

\* ================================================================= claims
\* a call finishes in this step
Finishes == call'.pc = "idle" /\ (call.pc # "idle" \/ started' # started)
\* a call enters its function in this step, and its record afterwards
Enters == started' # started
EnteredRec == IF call'.pc # "idle" THEN call' ELSE done'[1]

\* the call made HTTP calls and every one of them failed with a server error
OnlyServerErrors(d) == d.nclient = 1 /\ d.final = "5xx" /\ ~d.retried

\* C1: with a real provider and every HTTP call failing with a server error,
\* fetch_schedule(sport, use_cache=false) returns a non-empty list of mock
\* events, the same list on every repeated call, and does not raise.
C1_FallbackDeterminism ==
    \A i \in 1..Len(done) :
        LET d == done[i] IN
        (d.op = "schedule" /\ ~UseMock /\ ~d.use_cache /\ OnlyServerErrors(d))
        => /\ d.outcome # "raised"
           /\ d.result # <<>>
           /\ \A n \in 1..Len(d.result) : d.result[n].mock_data
           /\ \A j \in 1..Len(done) :
                (done[j].op = "schedule" /\ done[j].sport = d.sport
                 /\ ~done[j].use_cache /\ OnlyServerErrors(done[j]))
                => done[j].result = d.result

\* C2: no failure of the provider layer makes fetch_schedule or
\* fetch_upcoming_boxing raise: every call ends by returning a list.
C2_NoRaise == \A i \in 1..Len(done) : done[i].outcome # "raised"

\* C3: two fetch_schedule(sport, use_cache=true) calls in immediate succession
\* from an empty cache call the provider exactly once in total.
C3_SecondCallFromCache ==
    Len(done) = 2 =>
        LET a == done[2]
            b == done[1]
        IN (/\ a.op = "schedule" /\ b.op = "schedule" /\ a.sport = b.sport
            /\ a.use_cache /\ b.use_cache
            /\ ~a.had_row /\ a.nclient = 1 /\ a.outcome # "raised"
            /\ b.fresh /\ b.outcome # "raised")
           => a.nclient + b.nclient = 1

\* C4: after _save_to_cache(key, payload, ttl), _get_from_cache(key) returns
\* the payload at every time strictly before expires_at, and None at every
\* time at or after it, while the row is still in the table.
C4_CacheTTL ==
    [][\A k \in Keys :
         (Enters /\ EnteredRec.use_cache /\ EnteredRec.key = k
          /\ last_save[k].saved)
         => /\ EnteredRec.cached =
                 (IF now < last_save[k].at + last_save[k].ttl
                  THEN Some(last_save[k].payload) ELSE None)
            /\ RowsFor(db', k) # {}]_vars

\* C4 witness: a read of an expired entry returned None, the row is in the table
C4_Witness ==
    /\ Len(done) = 2
    /\ done[1].use_cache /\ done[1].had_row /\ ~done[1].fresh
    /\ done[1].cached = None
    /\ done[1].key = done[2].key /\ done[2].result # <<>>
    /\ RowsFor(db, done[1].key) # {}

\* C8: when the provider call fails and an unexpired entry exists for the key,
\* the caller receives the cached payload and the entry is not replaced.
C8_CacheFallback ==
    [][\A i \in RowsFor(db, call.key) :
         (Finishes /\ call.pc # "idle" /\ done'[1].outcome = "failed"
          /\ i = FirstRow(db, call.key) /\ db[i].expires_at > now)
         => /\ done'[1].result = db[i].payload
            /\ db' = db]_vars

\* C9: every fetch_schedule call not served from the cache writes the list it
\* returns to schedule:{sport} with expires_at = now + 12 hours;
\* fetch_upcoming_boxing does so under boxing:upcoming with now + 24 hours.
C9_WriteThrough ==
    [][(Finishes /\ done'[1].outcome \notin {"cache", "raised"})
       => LET d == done'[1]
              k == IF d.op = "boxing" THEN <<"boxing", "upcoming">>
                   ELSE <<"schedule", d.sport>>
          IN /\ RowsFor(db', k) # {}
             /\ \A i \in RowsFor(db', k) :
                  /\ db'[i].payload = d.result
                  /\ db'[i].expires_at = now + (IF d.op = "boxing" THEN 24 ELSE 12)]_vars

\* C9 witness: a call returned provider events and the table holds them
C9_Witness ==
    /\ done # <<>>
    /\ done[1].outcome = "ok" /\ done[1].result # <<>>
    /\ \E i \in RowsFor(db, done[1].key) : db[i].payload = done[1].result

\* C10: the table holds at most one row per cache key, and that row has the
\* payload, created_at and expires_at of the latest save for the key.
C10_OneEntryPerKey ==
    \A k \in Keys :
        /\ Cardinality(RowsFor(db, k)) <= 1
        /\ last_save[k].saved =>
             \E i \in RowsFor(db, k) :
                /\ db[i].payload = last_save[k].payload
                /\ db[i].created_at = last_save[k].at
                /\ db[i].expires_at = last_save[k].at + last_save[k].ttl

\* C10 witness: a key was saved twice, with different payloads and times
C10_Witness ==
    /\ Len(done) = 2
    /\ done[1].key = done[2].key
    /\ done[1].outcome \notin {"cache", "raised"}
    /\ done[2].outcome \notin {"cache", "raised"}
    /\ done[1].result # done[2].result
    /\ \E i \in RowsFor(db, done[1].key) : db[i].created_at > 0

\* C6: _request with max_retries = 3 against a provider that answers 429 to
\* every call makes at most 4 HTTP attempts and then ends with a failure; the
\* sum of its backoff waits stays below the exponential schedule 1 + 2 + 4 s
\* plus one second of jitter per wait.
C6_RetryBound ==
    req.seen = {"429"} =>
        /\ req.nhttp <= 4
        /\ req.pc # "returned"
        /\ req.waited < (1 + 2 + 4) * JitterRes + 3 * JitterRes

\* C6 witness: a request that saw only 429 has ended, with a failure
C6_Witness ==
    /\ req.pc = "raised" /\ req.seen = {"429"}
    /\ req.exc = "exhausted" /\ req.nwaits = 3

\* C7: any two requests of one rate-limited client are sent at least
\* _rate_limit_delay apart, also when coroutines interleave at the sleep.
C7_MinSpacing ==
    \A i, j \in 1..Len(sent) : i < j => sent[j] - sent[i] >= rate_limit_delay

\* C5: the two scores of every pairwise compute_dci sum to 100 within 0.01,
\* and each score lies in [0, 100].
C5_ScoresSumTo100 ==
    (dci_out.computed /\ dci_in.sport \in {"boxing", "mma"}) =>
        /\ dci_out.score1 + dci_out.score2 >= 1000000 - 100
        /\ dci_out.score1 + dci_out.score2 <= 1000000 + 100
        /\ 0 <= dci_out.score1 /\ dci_out.score1 <= 1000000
        /\ 0 <= dci_out.score2 /\ dci_out.score2 <= 1000000

\* C11: when concurrent fetch_schedule calls for one sport have all ended,
\* the table holds exactly one row for the key, and its payload is the whole
\* result list of one of the calls.
C11_ConcurrentSave ==
    (\A c \in ConcCalls : cc[c].pc \in {"returned", "raised"})
    => /\ Cardinality(RowsFor(db, ScheduleKey(ConcSport))) = 1
       /\ \A i \in RowsFor(db, ScheduleKey(ConcSport)) :
            \E c \in ConcCalls : /\ cc[c].pc = "returned"
                                 /\ db[i].payload = cc[c].result

\* C12: a finished sync_sports_data has attempted every sport of its list in
\* order and then boxing, each with use_cache=false; its report has one entry
\* per sport and one for boxing, and a sport whose fetch raised is reported
\* with status error and count 0, the later sports being attempted all the same.
C12_SyncReport ==
    [][/\ (/\ sync.pc = "fetching" /\ call.pc = "idle"
            /\ sync.i <= Len(SyncSports) /\ done[1].outcome = "raised")
           => /\ SyncSports[sync.i] \in DOMAIN sync'.sports
              /\ sync'.sports[SyncSports[sync.i]] =
                    [status |-> "error", count |-> 0]
              /\ sync'.i = sync.i + 1
              /\ Len(sync'.attempted) = sync.i + 1
       /\ sync'.pc = "returned"
           => /\ sync'.attempted =
                    [i \in 1..(Len(SyncSports) + 1) |->
                        IF i <= Len(SyncSports)
                        THEN <<"schedule", SyncSports[i], FALSE>>
                        ELSE <<"boxing", "boxing", FALSE>>]
              /\ DOMAIN sync'.sports = {SyncSports[i] : i \in DOMAIN SyncSports}
              /\ \A x \in DOMAIN sync'.sports :
                    sync'.sports[x].status \in {"success", "error"}
              /\ sync'.boxing.status \in {"success", "error"}]_vars

\* C12 witness: a finished sync run in which the fetch of the second sport
\* raised and the fetches after it succeeded
C12_Witness ==
    /\ sync.pc = "returned"
    /\ sync.sports["nba"] = [status |-> "error", count |-> 0]
    /\ sync.sports["mlb"] = [status |-> "success", count |-> 2]
    /\ sync.sports["formula1"].status = "success"
    /\ sync.boxing.status = "success"

\* C13: when the sport has no league mapping or the aggregator is in mock
\* mode, fetch_schedule returns mock events of that sport (a non-empty list),
\* calls no provider and does not raise.
C13_MockWhenUnconfigured ==
    \A i \in 1..Len(done) :
        LET d == done[i] IN
        (d.op = "schedule" /\ (UseMock \/ LeagueIdOf(d.sport) = ""))
        => /\ d.outcome # "raised"
           /\ d.nclient = 0
           /\ d.result # <<>>
           /\ \A n \in 1..Len(d.result) :
                d.result[n].mock_data /\ d.result[n].sport_type = d.sport

\* C14: on a 401, and on any other non-2xx status except 429, _request makes
\* no further attempt: a request whose first answer is such a status has made
\* exactly one HTTP call, has failed and has not waited; and no request that
\* ended on a status error has slept after its last call.
C14_NoRetryOnStatusError ==
    /\ \A tag \in {"401", "5xx"} :
          (req.seen = {tag} /\ req.pc # "http")
          => /\ req.pc = "raised" /\ req.exc = "status"
             /\ req.nhttp = 1
             /\ req.nwaits = 0 /\ req.waited = 0
    /\ (req.pc = "raised" /\ req.exc = "status") => req.nwaits = req.nhttp - 1
    /\ req.pc = "sleep" => req.seen \cap {"401", "5xx"} = {}

\* C14 witness: a request answered 401 has failed after its one call
C14_Witness ==
    /\ req.pc = "raised" /\ req.seen = {"401"} /\ req.exc = "status"
    /\ req.nhttp = 1 /\ req.nwaits = 0

\* C15: _request sleeps only between two attempts: when it sleeps another
\* attempt follows, and a request that has failed has made one more HTTP
\* call than backoff waits.
C15_NoSleepAfterLastAttempt ==
    /\ req.pc = "sleep" => req.attempt + 1 < max_retries
    /\ req.pc = "raised" => req.nwaits < req.nhttp

\* C16: at every moment at most 5 HTTP requests to the provider are in
\* flight, concurrent fetch_schedule calls included.
C16_AtMostFiveInFlight ==
    Cardinality({c \in GateCalls : gate[c].pc = "inflight"}) <= 5

\* C17: when the extracted factors of the two competitors are identical, both
\* scores are 50.0 and both classifications are the even tier of the sport.
C17_IdenticalFactorsEven ==
    /\ (/\ dci_out.computed /\ dci_in.sport = "boxing"
        /\ ExtractFighterFactors(dci_in.one) = ExtractFighterFactors(dci_in.two))
       => /\ dci_out.score1 = 500000 /\ dci_out.score2 = 500000
          /\ dci_out.class1 = "Even Matchup" /\ dci_out.class2 = "Even Matchup"
    /\ (/\ dci_out.computed /\ dci_in.sport = "mma"
        /\ MMAExtractFactors(dci_in.one, dci_in.two)
             = MMAExtractFactors(dci_in.two, dci_in.one))
       => /\ dci_out.score1 = 500000 /\ dci_out.score2 = 500000
          /\ dci_out.class1 = "Balanced Match" /\ dci_out.class2 = "Balanced Match"

\* the tier of a classification label, 1 (lowest) to 4
TierOf(label) ==
    CASE label \in {"Dominant Edge", "Excellent"} -> 4
      [] label \in {"Balanced Advantage", "Technical Advantage", "Strong"} -> 3
      [] label \in {"Even Matchup", "Balanced Match", "Moderate"} -> 2
      [] OTHER -> 1

\* the tier the thresholds 50, 65 and 85 give a score (as 10000 * score)
TierAt(score) ==
    IF score >= 850000 THEN 4 ELSE IF score >= 650000 THEN 3
    ELSE IF score >= 500000 THEN 2 ELSE 1

\* C18: every scoring service classifies a score into four tiers cut at 50, 65
\* and 85: Dominant Edge from 85, the second tier from 65, the even tier from
\* 50, Potential Upset below 50.
C18_TiersAtFixedThresholds ==
    dci_out.computed =>
        /\ TierOf(dci_out.class1) = TierAt(dci_out.score1)
        /\ dci_out.score1 >= 850000 => dci_out.class1 = "Dominant Edge"
        /\ dci_out.score1 < 500000 => dci_out.class1 = "Potential Upset"
        /\ dci_in.sport \in {"boxing", "mma"} =>
              /\ TierOf(dci_out.class2) = TierAt(dci_out.score2)
              /\ dci_out.score2 >= 850000 => dci_out.class2 = "Dominant Edge"
              /\ dci_out.score2 < 500000 => dci_out.class2 = "Potential Upset"

\* C19: compute_dci returns a pair of results, without raising, for every pair
\* of stat bundles with factor fields missing or null.
C19_NoRaiseOnMissingOrNull ==
    dci_in.sport \in {"boxing", "mma"} => (dci_out.computed /\ ~dci_out.raised)

\* C20: two predict_game calls with the same game, teams and supplied home
\* and away team data return the same predicted_winner, confidence and
\* dci_score.
C20_SameInputsSameScore ==
    (/\ Len(preds) = 2
     /\ preds[1].home = preds[2].home /\ preds[1].away = preds[2].away
     /\ preds[1].home.given /\ preds[1].away.given)
    => /\ preds[1].out.predicted_winner = preds[2].out.predicted_winner
       /\ preds[1].out.confidence = preds[2].out.confidence
       /\ preds[1].out.dci_score = preds[2].out.dci_score

\* C21: when a sync_sports_data run returns after an earlier run (finished
\* or interrupted), every cache key has exactly one entry, and after a
\* finished earlier run the set of cache keys is the one that run left: the
\* repeated run has only overwritten entries.
C21_RepeatedSyncOverwrites ==
    (sync.pc = "returned" /\ resync.again)
    => /\ \A k \in CacheKeys(db) : Cardinality(RowsFor(db, k)) = 1
       /\ CacheKeys(db) \subseteq SyncKeys
       /\ resync.first = "returned" => CacheKeys(db) = resync.keys1

Has(text, phrase) == \E i \in DOMAIN text : text[i] = phrase

\* the phrases of the text are distinct phrases of `order`, in its order
InOrder(text, order) ==
    \E pos \in [DOMAIN text -> DOMAIN order] :
        /\ \A i \in DOMAIN text : order[pos[i]] = text[i]
        /\ \A i, j \in DOMAIN text : i < j => pos[i] < pos[j]

\* the checks of the boxing reasoning, in the order of the code
BoxingPhrases ==
    <<"strong power index", "high KO rate", "reach advantage",
      "reach disadvantage", "excellent defense", "defensive vulnerabilities",
      "strong win streak", "superior stamina", "experience advantage",
      "experience disadvantage">>

\* which boxing phrase is due for returned factors f against o
BoxingDue(f, o, phrase) ==
    LET reach_diff == (IF f.reach_cm = Nil THEN 0 ELSE f.reach_cm)
                      - (IF o.reach_cm = Nil THEN 0 ELSE o.reach_cm)
    IN CASE phrase = "strong power index" -> f.power_index > 7500
         [] phrase = "high KO rate" -> f.ko_pct > 7000
         [] phrase = "reach advantage" -> reach_diff > 5
         [] phrase = "reach disadvantage" -> reach_diff < -5
         [] phrase = "excellent defense" -> f.defense_score > 8000
         [] phrase = "defensive vulnerabilities" -> f.defense_score < 5000
         [] phrase = "strong win streak" -> f.win_streak_score > 7000
         [] phrase = "superior stamina" -> f.stamina_index > 8000
         [] phrase = "experience advantage" -> f.experience > o.experience + 2000
         [] phrase = "experience disadvantage" -> f.experience < o.experience - 2000

MMAPhrases ==
    <<"elite striking accuracy", "dominant wrestling", "exceptional defense",
      "strong momentum">>

MMADue(f, phrase) ==
    CASE phrase = "elite striking accuracy" -> f.strike_accuracy > 7000
      [] phrase = "dominant wrestling" -> f.takedown_success > 7000
      [] phrase = "exceptional defense" -> f.defense_efficiency > 7000
      [] phrase = "strong momentum" -> f.recent_win_streak > 6000

\* the text is the due phrases in order, or the generic phrase alone when
\* none is due
ReasoningAsDue(text, order, due, generic) ==
    /\ \A n \in DOMAIN order : Has(text, order[n]) <=> due[n]
    /\ Has(text, generic) <=> \A n \in DOMAIN order : ~due[n]
    /\ IF Has(text, generic) THEN text = <<generic>> ELSE InOrder(text, order)

\* C23: the reasoning text of a competitor holds the phrase of every check
\* that triggers on the returned factors, in the order of the checks, and
\* the sport's generic phrase exactly when no check triggers (boxing:
\* "balanced attributes", MMA: "balanced skillset").
C23_ReasoningFollowsChecks ==
    /\ (dci_out.computed /\ dci_in.sport = "boxing")
       => /\ ReasoningAsDue(dci_out.reasoning1, BoxingPhrases,
                [n \in DOMAIN BoxingPhrases |->
                    BoxingDue(dci_out.factors1, dci_out.factors2, BoxingPhrases[n])],
                "balanced attributes")
          /\ ReasoningAsDue(dci_out.reasoning2, BoxingPhrases,
                [n \in DOMAIN BoxingPhrases |->
                    BoxingDue(dci_out.factors2, dci_out.factors1, BoxingPhrases[n])],
                "balanced attributes")
    /\ (dci_out.computed /\ dci_in.sport = "mma")
       => /\ ReasoningAsDue(dci_out.reasoning1, MMAPhrases,
                [n \in DOMAIN MMAPhrases |-> MMADue(dci_out.factors1, MMAPhrases[n])],
                "balanced skillset")
          /\ ReasoningAsDue(dci_out.reasoning2, MMAPhrases,
                [n \in DOMAIN MMAPhrases |-> MMADue(dci_out.factors2, MMAPhrases[n])],
                "balanced skillset")

\* C23 witness: a boxing result with the generic phrase for one fighter and
\* three phrases for the other
C23_Witness ==
    /\ dci_out.computed /\ dci_in.sport = "boxing"
    /\ dci_out.reasoning1 = <<"balanced attributes">>
    /\ dci_out.reasoning2 = <<"excellent defense", "strong win streak",
                              "superior stamina">>

\* the weighted factors of a sport's formula
WeightedFactors(sport) ==
    CASE sport = "boxing" ->
            {"power_index", "speed_index", "stamina_index", "defense_score",
             "win_streak_score", "age_factor", "experience"}
      [] sport = "mma" ->
            {"strike_accuracy", "takedown_success", "stamina",
             "significant_strikes", "defense_efficiency", "reach_advantage",
             "recent_win_streak", "age_experience_factor"}
      [] sport = "tennis" ->
            {"first_serve_pct", "break_points_saved", "aces_per_match",
             "unforced_errors", "stamina_index", "ranking_factor",
             "surface_win_rate", "recent_form"}

\* every weighted factor of the competitor equals v (for boxing the reach
\* advantage, which is not among the returned factors, too)
FactorsAllEqual(sport, f, o, v) ==
    /\ \A n \in WeightedFactors(sport) : f[n] = v
    /\ sport = "boxing" => calculate_reach_advantage(f.reach_cm, o.reach_cm) = v

\* C24: the weights of a sport's formula sum to 1.0: a competitor whose
\* factors all equal one value v in [0,100] has the raw weighted score v.
C24_WeightsSumToOne ==
    (dci_out.computed /\ dci_in.sport \in {"boxing", "mma", "tennis"})
    => \A v \in {dci_out.factors1[n] : n \in WeightedFactors(dci_in.sport)} :
         /\ (0 <= v /\ v <= 10000
             /\ FactorsAllEqual(dci_in.sport, dci_out.factors1, dci_out.factors2, v))
            => dci_out.raw1 = v * 100
         /\ (0 <= v /\ v <= 10000
             /\ FactorsAllEqual(dci_in.sport, dci_out.factors2, dci_out.factors1, v))
            => dci_out.raw2 = v * 100

\* C28: normalization keeps the order of the raw weighted scores: the
\* competitor with the strictly higher raw score never gets the lower
\* normalized score, negative raw scores included.
C28_NormalizationKeepsOrder ==
    (dci_out.computed /\ dci_in.sport \in {"mma", "tennis"})
    => /\ dci_out.raw1 > dci_out.raw2 => dci_out.score1 >= dci_out.score2
       /\ dci_out.raw2 > dci_out.raw1 => dci_out.score2 >= dci_out.score1

\* the rows of a key, in table order
RowsOf(rows, key) == SelectSeq(rows, LAMBDA r : r.cache_key = key)

\* the key of the call that runs in this step, if one does
OwnKey ==
    IF call.pc # "idle" THEN {call.key}
    ELSE IF Enters THEN {EnteredRec.key} ELSE {}

\* C25: fetch_schedule for one sport, and fetch_upcoming_boxing, never
\* create, change or remove the entry of another key: in every step of a call
\* the rows of every key but the call's own are unchanged.
C25_OtherKeysUntouched ==
    [][/\ \A k \in Keys \ OwnKey : RowsOf(db', k) = RowsOf(db, k)
       /\ CacheKeys(db') \subseteq CacheKeys(db) \cup OwnKey]_vars

\* C25 witness: a call has saved its entry twelve hours after another key's
\* entry was saved, and that entry is as it was saved
C25_Witness ==
    /\ Len(db) = 2
    /\ db[1].cache_key # db[2].cache_key
    /\ db[1].created_at = 0 /\ db[2].created_at = TickHours
    /\ done # <<>> /\ done[1].key = db[2].cache_key
    /\ db[1].payload = last_save[db[1].cache_key].payload
    /\ db[1].payload # <<>>

\* C26: a fetch_schedule(use_cache=true) that finds an unexpired entry
\* returns its payload, calls no provider and leaves the table as it is; one
\* that finds an expired entry gets a miss and the entry is not deleted.
C26_ReadLeavesEntry ==
    [][(Enters /\ EnteredRec.op = "schedule" /\ EnteredRec.use_cache)
       => LET i == FirstRow(db, EnteredRec.key) IN
          /\ (i # 0 /\ db[i].expires_at > now)
             => /\ call'.pc = "idle"
                /\ EnteredRec.outcome = "cache"
                /\ EnteredRec.result = db[i].payload
                /\ EnteredRec.nclient = 0
                /\ db' = db
          /\ (i # 0 /\ db[i].expires_at <= now)
             => /\ EnteredRec.cached = None
                /\ RowsFor(db', EnteredRec.key) # {}]_vars

\* C29: the cached field of the schedule response is true exactly when the
\* returned events were served from the cache store, and false when they
\* were fetched from the provider or generated as mock data in that call.
C29_CachedFieldTellsSource ==
    \A i \in 1..Len(done) :
        (done[i].op = "schedule" /\ done[i].outcome # "raised")
        => (get_sport_schedule(done[i]).cached <=> done[i].outcome = "cache")

\* the explicit index of a bundle is the factor, when it is supplied
ExplicitUsed(fighter, factors) ==
    /\ fighter.power_idx \notin {Nil, NullV} => factors.power_index = fighter.power_idx
    /\ fighter.speed_idx \notin {Nil, NullV} => factors.speed_index = fighter.speed_idx
    /\ fighter.stamina_idx \notin {Nil, NullV}
       => factors.stamina_index = fighter.stamina_idx
    /\ fighter.defense_idx \notin {Nil, NullV}
       => factors.defense_score = fighter.defense_idx

\* C27: in boxing factor extraction a supplied power_idx, speed_idx,
\* stamina_idx or defense_idx, any number in [0,100] and zero too, is the
\* factor unchanged; the derived index is used only when none is supplied.
C27_ExplicitIndexUsed ==
    (dci_out.computed /\ dci_in.sport = "boxing")
    => /\ ExplicitUsed(dci_in.one, dci_out.factors1)
       /\ ExplicitUsed(dci_in.two, dci_out.factors2)

\* the sport type an identifier names, if the sport map knows it
NamedTypes(sport) ==
    IF Lower(sport) \in DOMAIN sport_map THEN {sport_map[Lower(sport)]} ELSE {}

\* C30: get_upcoming_games, get_scores and get_standings never return another
\* sport's data: provider data is that of the sport type the identifier
\* names, and for an identifier the sport map does not know the result is the
\* empty list or mock data labelled with the requested sport.
C30_NoOtherSportsData ==
    \A i \in 1..Len(live) :
        LET c == live[i] IN
        /\ c.result.source = "provider" => c.result.data_sport \in NamedTypes(c.sport)
        /\ c.result.source = "mock" => c.result.label = c.sport
        /\ NamedTypes(c.sport) = {} => c.result.source \in {"empty", "mock"}

====
